---- MODULE Spec2Model ----
(***************************************************************************)
(* Market Reconciliation & Settlement Engine of the Whizy backend.         *)
(*                                                                         *)
(* The module models                                                       *)
(*   - the unit converter (src/src/constants.rs),                          *)
(*   - the bet settlement engine (src/src/services/betting_service.rs)     *)
(*     together with MarketService::recalculate_market_stats,              *)
(*   - the chain reconciler (src/src/services/sync.rs,                     *)
(*     src/src/services/blockchain_sync.rs, src/src/services/market.rs).   *)
(*                                                                         *)
(* Every database statement and every chain call of a handler is one step  *)
(* of the process that runs the handler: these are the suspension points   *)
(* (".await") at which other handlers interleave.  A read whose result     *)
(* cannot change (a market of the contract, once created) or is only       *)
(* logged is taken together with the statement next to it.                 *)
(***************************************************************************)
EXTENDS Integers, Sequences, FiniteSets, TLC

(***************************************************************************)
(* Base-unit amounts.  A u64 amount is held as three limbs in base 10^6,   *)
(* <<t, u, m>> standing for t*10^12 + u*10^6 + m, because MAX_BET_RAW and  *)
(* u64::MAX exceed the integers TLC computes with.                         *)
(***************************************************************************)
USDC_UNIT == 1000000

LimbLess(a, b) ==
    \/ a[1] < b[1]
    \/ a[1] = b[1] /\ a[2] < b[2]
    \/ a[1] = b[1] /\ a[2] = b[2] /\ a[3] < b[3]

U64_MAX == <<18446744, 73709, 551615>>

ZERO_RAW == <<0, 0, 0>>

MIN_BET_RAW == <<0, 1, 0>>

MAX_BET_RAW == <<0, 10000, 0>>

(***************************************************************************)
(* An amount string.  kind "bad" is text that f64::from_str rejects        *)
(* ("abc", ""), "nan" and "inf" are the texts it accepts as NaN and as an  *)
(* infinity, and "num" is a decimal numeral with sign neg, integer part    *)
(* whole = <<millions, units>> of USDC and seven fractional digits frac7.  *)
(* The f64 arithmetic is taken as exact decimal arithmetic.                *)
(***************************************************************************)
Num(neg, whole, frac7) == [kind |-> "num", neg |-> neg, whole |-> whole, frac7 |-> frac7]

BadText == [kind |-> "bad", neg |-> FALSE, whole |-> <<0, 0>>, frac7 |-> 0]

NanText == [kind |-> "nan", neg |-> FALSE, whole |-> <<0, 0>>, frac7 |-> 0]

InfText(neg) == [kind |-> "inf", neg |-> neg, whole |-> <<0, 0>>, frac7 |-> 0]

IsZeroNum(a) == a.whole = <<0, 0>> /\ a.frac7 = 0

\* amount < 0.0 on the parsed f64 (-0.0 < 0.0 is false, NaN < 0.0 is false)
IsNegative(a) ==
    CASE a.kind = "num" -> a.neg /\ ~IsZeroNum(a)
      [] a.kind = "inf" -> a.neg
      [] OTHER -> FALSE

\* (amount * USDC_UNIT as f64) as u64: truncates toward zero, saturates at
\* u64::MAX, maps NaN and negative values to 0
usdc_to_raw(a) ==
    CASE a.kind = "nan" -> ZERO_RAW
      [] a.kind = "inf" -> IF a.neg THEN ZERO_RAW ELSE U64_MAX
      [] OTHER ->
           IF a.neg THEN ZERO_RAW
           ELSE LET r == <<a.whole[1], a.whole[2], a.frac7 \div 10>>
                IN  IF LimbLess(U64_MAX, r) THEN U64_MAX ELSE r

Ok(v) == [ok |-> TRUE, err |-> "none", val |-> v]

Err(kind) == [ok |-> FALSE, err |-> kind, val |-> ZERO_RAW]

parse_usdc_amount(a) ==
    IF a.kind = "bad" THEN Err("BadRequest")
    ELSE IF IsNegative(a) THEN Err("BadRequest")
    ELSE LET amount_raw == usdc_to_raw(a)
         IN  IF amount_raw = ZERO_RAW THEN Err("BadRequest")
             ELSE Ok(amount_raw)

validate_bet_amount_strict(amount) ==
    IF ~LimbLess(MIN_BET_RAW, amount) THEN Err("BadRequest")
    ELSE IF LimbLess(MAX_BET_RAW, amount) THEN Err("BadRequest")
    ELSE Ok(amount)

validate_bet_amount(amount) ==
    IF LimbLess(amount, MIN_BET_RAW) THEN Err("BadRequest")
    ELSE IF LimbLess(MAX_BET_RAW, amount) THEN Err("BadRequest")
    ELSE Ok(amount)

\* the two calls of place_bet: parse_usdc_amount(..)?; validate_bet_amount(..)?
CheckAmount(a) ==
    LET p == parse_usdc_amount(a)
    IN  IF ~p.ok THEN p ELSE validate_bet_amount(p.val)


(***************************************************************************)
(* Database and chain state.                                               *)
(***************************************************************************)
VARIABLES
    markets,    \* markets_extended: row id -> identity, question, status
    pool,       \* markets_extended: row id -> the pool counters of the row
    bets,       \* bets_extended, in insertion order
    chain,      \* the contract's markets: chain[k + 1] is the question of id k
    allowance,  \* the token allowance of the settlement contract
    bettor,     \* the place_bet calls
    recalc,     \* the recalculate_market_stats call
    placed,     \* per market, what the successful place_bet calls wagered
    conv,       \* the unit converter applied to one amount string
    syncer,     \* the reconciliation passes
    sfbLog,     \* the conditional updates the sync_from_blockchain passes ran
    observe,    \* whether the figures of the passes are recorded
    jobs,       \* the background jobs: indexer-bet ingestion, odds backfill
    now,        \* the wall clock, in seconds since the epoch
    reads       \* the read-only requests: chart series, sync status

vars == <<markets, pool, bets, chain, allowance, bettor, recalc, placed, conv,
          syncer, sfbLog, observe, jobs, now, reads>>

\* what no reconciliation pass changes
notRecon ==
    <<pool, bets, allowance, bettor, recalc, placed, conv, observe, jobs, now, reads>>

NULL == -1

Rows == {"A", "B", "C"}

NoRow == "none"

\* result IS NULL
NoResult == "null"

\* "blockchainMarketId"::text
Digits == <<"0", "1", "2", "3", "4", "5", "6", "7", "8", "9">>

ChainIdText(k) == IF k \in 0..9 THEN Digits[k + 1] ELSE "many"

ZeroPool == [yes |-> 0, no |-> 0, total |-> 0, countYes |-> 0, countNo |-> 0]

\* the u64 amount as the NUMERIC the database adds to the pools; the wagers
\* placed in the model are below 2^31 base units
raw_to_bigdecimal(raw) == raw[2] * USDC_UNIT + raw[3]

(***************************************************************************)
(* Odds.  The f64 quotient of two pools is kept as the pair <<n, d>>; the  *)
(* odds column holds a NUMERIC of at most four decimals, kept as an        *)
(* integer number of ten-thousandths.                                      *)
(***************************************************************************)
\* the NUMERIC 1.0, which '1.0' and '1.00' both compare equal to
OddsOne == 10000

RECURSIVE Pow10(_)
Pow10(k) == IF k = 0 THEN 1 ELSE 10 * Pow10(k - 1)

RECURSIVE TimesDiv(_, _, _, _, _)
\* quotient and remainder of (times * r) by d, for 0 <= r < d, by repeated
\* addition so that no intermediate value exceeds 2 * d
TimesDiv(r, d, times, q, acc) ==
    IF times = 0 THEN [q |-> q, r |-> acc]
    ELSE IF acc + r >= d THEN TimesDiv(r, d, times - 1, q + 1, acc + r - d)
    ELSE TimesDiv(r, d, times - 1, q, acc + r)

RECURSIVE Scaled(_, _, _)
\* floor(n * 10^k / d) and what remains, one decimal at a time
Scaled(n, d, k) ==
    IF k = 0 THEN [q |-> n \div d, r |-> n % d]
    ELSE LET s == Scaled(n, d, k - 1)
             t == TimesDiv(s.r, d, 10, 0, 0)
         IN  [q |-> s.q * 10 + t.q, r |-> t.r]

\* format!("{:.k}", odds) parsed as a BigDecimal: the decimal of k places
\* nearest to the quotient.  A quotient exactly halfway between two decimals
\* goes the way the f64 nearest to it lies, which is either.
FormatOdds(ratio, k) ==
    LET s == Scaled(ratio[1], ratio[2], k)
        near == IF 2 * s.r < ratio[2] THEN {s.q}
                ELSE IF 2 * s.r > ratio[2] THEN {s.q + 1}
                ELSE {s.q, s.q + 1}
    IN  {x * Pow10(4 - k) : x \in near}

\* if pool > 0.0 { total_pool / pool } else { 1.0 }
PoolRatio(total_pool, position_pool) ==
    IF position_pool > 0 THEN <<total_pool, position_pool>> ELSE <<1, 1>>

\* raw_odds.max(1.0)
MaxOne(ratio) == IF ratio[1] < ratio[2] THEN <<1, 1>> ELSE ratio

\* calculate_bet_odds on the pools that its SELECT returned; the division by
\* USDC_UNIT of raw_to_usdc is applied to every term and leaves the quotient
\* as it is
calculate_bet_odds_of_stored_pool(pl, position, amount) ==
    MaxOne(IF position THEN PoolRatio(pl.yes + pl.no, pl.yes)
           ELSE PoolRatio(pl.yes + pl.no, pl.no))

calculate_bet_odds(pl, position, amount) ==
    LET final_yes_pool == pl.yes + (IF position THEN amount ELSE 0)
        final_no_pool == pl.no + (IF position THEN 0 ELSE amount)
        total_pool == final_yes_pool + final_no_pool
        raw_odds == IF position THEN PoolRatio(total_pool, final_yes_pool)
                    ELSE PoolRatio(total_pool, final_no_pool)
    IN  MaxOne(raw_odds)

\* calculated_odds of sync_bets_from_indexer and of
\* recalculate_odds_for_existing_bets, from the three stored pool columns
calculated_odds_inverted(pl, position) ==
    IF position THEN PoolRatio(pl.yes, pl.total) ELSE PoolRatio(pl.no, pl.total)

calculated_odds(pl, position) ==
    IF position THEN PoolRatio(pl.total, pl.yes) ELSE PoolRatio(pl.total, pl.no)

(***************************************************************************)
(* Bounds of the model.                                                    *)
(***************************************************************************)
NumBettors == 2

Bettors == 1..NumBettors

\* how many times a background job is run
MaxRuns == 2

(***************************************************************************)
(* BettingService::place_bet                                               *)
(***************************************************************************)
IdleBettor ==
    [pc |-> "idle", ref |-> "", position |-> FALSE, amount |-> BadText,
     market |-> NoRow, raw |-> ZERO_RAW, result |-> "none",
     chainFail |-> FALSE, dbFail |-> FALSE,
     betId |-> 0, poolInc |-> FALSE, chainCalls |-> 0, approvals |-> 0,
     odds |-> 0, allowanceRead |-> ZERO_RAW, approval |-> "none"]

\* The calls come from requests (routes/bets.rs) and have no identity of
\* their own: unless observe holds, the calls are kept in the order of their
\* positions in the code, the calls not yet made last, so that two states
\* that differ in the numbering of the calls only are one state.
BettorRank ==
    [market_read |-> 1, allowance |-> 2, approve_send |-> 3, approve_wait |-> 4,
     wager_send |-> 5, wager_wait |-> 6, odds |-> 7, insert |-> 8,
     update_pools |-> 9, returned |-> 10, idle |-> 11]

BettorKey(b) ==
    (((BettorRank[b.pc] * 2 + (IF b.position THEN 1 ELSE 0)) * 8 + b.betId) * 8
        + b.chainCalls) * 2 + (IF b.dbFail THEN 1 ELSE 0)

RECURSIVE InsertBettor(_, _)
InsertBettor(b, s) ==
    IF s = <<>> THEN <<b>>
    ELSE IF BettorKey(b) <= BettorKey(Head(s)) THEN <<b>> \o s
    ELSE <<Head(s)>> \o InsertBettor(b, Tail(s))

RECURSIVE SortBettors(_)
SortBettors(s) == IF s = <<>> THEN <<>> ELSE InsertBettor(Head(s), SortBettors(Tail(s)))

CanonBettors(s) == IF observe THEN s ELSE SortBettors(s)

\* WHERE id = $1 OR "adjTicker" = $1 OR "blockchainMarketId"::text = $1
MatchesIdentifier(m, r, ref) ==
    /\ m[r].present
    /\ \/ r = ref
       \/ m[r].ticker = ref
       \/ m[r].chainId # NULL /\ ChainIdText(m[r].chainId) = ref

\* fetch_optional over a query with LIMIT 1: any one of the matching rows, or
\* no row when none matches
FetchOptional(matching) == IF matching = {} THEN {NoRow} ELSE matching

\* what place_bet decides from the row that get_market_by_identifier returned
\* and from the amount string, before it calls submit_bet_transaction
PrecheckResultNoStatus(m, r, amount) ==
    IF r = NoRow THEN "NotFound"
    ELSE IF m[r].chainId = NULL THEN "BadRequest"
    ELSE IF ~CheckAmount(amount).ok THEN CheckAmount(amount).err
    ELSE "proceed"

PrecheckResult(m, r, amount) ==
    IF r = NoRow THEN "NotFound"
    ELSE IF m[r].chainId = NULL THEN "BadRequest"
    ELSE IF m[r].status # "active" THEN "BadRequest"
    ELSE IF ~CheckAmount(amount).ok THEN CheckAmount(amount).err
    ELSE "proceed"

Return(b, result) == [b EXCEPT !.pc = "returned", !.result = result]

\* place_bet is called; get_market_by_identifier runs its query and the checks
\* on the row and on the amount follow
PlaceBetCall(p, refs, amounts) ==
    /\ bettor[p].pc = "idle"
    /\ \E ref \in refs, position \in BOOLEAN, amount \in amounts, dbOk \in BOOLEAN :
         LET b0 == [bettor[p] EXCEPT !.ref = ref, !.position = position, !.amount = amount]
         IN  IF ~dbOk
             THEN bettor' = CanonBettors([bettor EXCEPT ![p] = Return([b0 EXCEPT !.dbFail = TRUE], "Internal")])
             ELSE \E r \in FetchOptional({x \in Rows : MatchesIdentifier(markets, x, ref)}) :
                      LET res == PrecheckResult(markets, r, amount)
                      IN  bettor' = CanonBettors([bettor EXCEPT ![p] =
                            IF res = "proceed"
                            THEN [b0 EXCEPT !.pc = "market_read", !.market = r,
                                            !.raw = CheckAmount(amount).val]
                            ELSE Return([b0 EXCEPT !.market = r], res)])
    /\ UNCHANGED <<markets, pool, bets, chain, allowance, recalc, placed, conv, syncer, sfbLog, observe, now, reads, jobs>>

\* a chain read of submit_bet_transaction: .call().await.map_err(..)?
AfterChainRead(b, ok, next) ==
    IF ok THEN [b EXCEPT !.pc = next, !.chainCalls = @ + 1]
    ELSE Return([b EXCEPT !.chainCalls = @ + 1, !.chainFail = TRUE], "Internal")

\* contract.markets(market_id).call()
PlaceBetMarketRead(p) ==
    /\ bettor[p].pc = "market_read"
    /\ \E ok \in BOOLEAN :
         bettor' = CanonBettors([bettor EXCEPT ![p] = AfterChainRead(@, ok, "allowance")])
    /\ UNCHANGED <<markets, pool, bets, chain, allowance, recalc, placed, conv, syncer, sfbLog, observe, now, reads, jobs>>

\* What the call read and how its approval ended are recorded where observe
\* holds; they have no effect on what the call does.
Read(b, a) == IF observe THEN [b EXCEPT !.allowanceRead = a] ELSE b

Approval(b, outcome) == IF observe THEN [b EXCEPT !.approval = outcome] ELSE b

\* if allowance < U256::from(amount)
InsufficientAllowanceAlways(a, raw) == TRUE

InsufficientAllowance(a, raw) == LimbLess(a, raw)

\* usdc_contract.allowance(wallet, contract).call(); if allowance < amount
PlaceBetAllowance(p) ==
    /\ bettor[p].pc = "allowance"
    /\ \E ok \in BOOLEAN :
         bettor' = CanonBettors([bettor EXCEPT ![p] =
            IF ok
            THEN AfterChainRead(Read(@, allowance), ok,
                                IF InsufficientAllowance(allowance, @.raw)
                                THEN "approve_send" ELSE "wager_send")
            ELSE AfterChainRead(@, ok, "allowance")])
    /\ UNCHANGED <<markets, pool, bets, chain, allowance, recalc, placed, conv, syncer, sfbLog, observe, now, reads, jobs>>

\* usdc_contract.approve(contract, u64::MAX).send()
PlaceBetApproveSend(p) ==
    /\ bettor[p].pc = "approve_send"
    /\ \E ok \in BOOLEAN :
         bettor' = CanonBettors([bettor EXCEPT ![p] =
            IF ok THEN [@ EXCEPT !.pc = "approve_wait", !.chainCalls = @ + 1,
                                 !.approvals = @ + 1]
            ELSE Return([@ EXCEPT !.chainCalls = @ + 1, !.chainFail = TRUE], "Internal")])
    /\ UNCHANGED <<markets, pool, bets, chain, allowance, recalc, placed, conv, syncer, sfbLog, observe, now, reads, jobs>>

\* approve_pending.await.map_err(..)?  Only Err(e) returns; whether the value
\* is Some(receipt) or None is not looked at.
AfterApproveWait(b, outcome) ==
    IF outcome = "error"
    THEN Return([Approval(b, outcome) EXCEPT !.chainFail = TRUE], "Internal")
    ELSE [Approval(b, outcome) EXCEPT !.pc = "wager_send"]

\* A transaction whose confirmation was not obtained may still have been mined.
PlaceBetApproveWait(p) ==
    /\ bettor[p].pc = "approve_wait"
    /\ \E outcome \in {"receipt", "no_receipt", "error"}, mined \in BOOLEAN :
         /\ outcome = "receipt" => mined
         /\ allowance' = IF mined THEN U64_MAX ELSE allowance
         /\ bettor' = CanonBettors([bettor EXCEPT ![p] = AfterApproveWait(@, outcome)])
    /\ UNCHANGED <<markets, pool, bets, chain, recalc, placed, conv, syncer, sfbLog, observe, now, reads, jobs>>

\* contract.place_bet(market_id, position, amount).send()
PlaceBetWagerSend(p) ==
    /\ bettor[p].pc = "wager_send"
    /\ \E ok \in BOOLEAN :
         bettor' = CanonBettors([bettor EXCEPT ![p] =
            IF ok THEN [@ EXCEPT !.pc = "wager_wait", !.chainCalls = @ + 1]
            ELSE Return([@ EXCEPT !.chainCalls = @ + 1, !.chainFail = TRUE], "Internal")])
    /\ UNCHANGED <<markets, pool, bets, chain, allowance, recalc, placed, conv, syncer, sfbLog, observe, now, reads, jobs>>

\* match pending_tx.await: Ok(Some(receipt)) goes on to the database steps,
\* Ok(None) and Err(e) return Internal
AfterWagerWaitIgnoringNone(b, outcome) ==
    IF outcome = "error" THEN Return(b, "Internal") ELSE [b EXCEPT !.pc = "odds"]

AfterWagerWait(b, outcome) ==
    IF outcome = "receipt" THEN [b EXCEPT !.pc = "odds"] ELSE Return(b, "Internal")

PlaceBetWagerWait(p) ==
    /\ bettor[p].pc = "wager_wait"
    /\ \E outcome \in {"receipt", "no_receipt", "error"} :
         bettor' = CanonBettors([bettor EXCEPT ![p] =
            AfterWagerWait([@ EXCEPT !.chainFail = (outcome # "receipt")], outcome)])
    /\ UNCHANGED <<markets, pool, bets, chain, allowance, recalc, placed, conv, syncer, sfbLog, observe, now, reads, jobs>>

\* calculate_bet_odds: SELECT "yesPoolSize", "noPoolSize", "totalPoolSize",
\* the odds computed from the row, and format!("{:.4}", odds) of place_bet
PlaceBetOdds(p) ==
    /\ bettor[p].pc = "odds"
    /\ \E dbOk \in BOOLEAN :
         IF dbOk
         THEN LET b == bettor[p]
                  odds == calculate_bet_odds(pool[b.market], b.position,
                                             raw_to_bigdecimal(b.raw))
              IN  \E odds_decimal \in FormatOdds(odds, 4) :
                     bettor' = CanonBettors([bettor EXCEPT ![p] =
                        [@ EXCEPT !.pc = "insert", !.odds = odds_decimal]])
         ELSE bettor' = CanonBettors([bettor EXCEPT ![p] = Return([@ EXCEPT !.dbFail = TRUE], "Internal")])
    /\ UNCHANGED <<markets, pool, bets, chain, allowance, recalc, placed, conv, syncer, sfbLog, observe, now, reads, jobs>>

\* INSERT INTO bets_extended (...) VALUES (..., 'active', NOW(), NOW())
PlaceBetInsert(p) ==
    /\ bettor[p].pc = "insert"
    /\ \E dbOk \in BOOLEAN :
         IF dbOk
         THEN /\ bets' = Append(bets, [id |-> Len(bets) + 1, market |-> bettor[p].market,
                                       position |-> bettor[p].position,
                                       amount |-> raw_to_bigdecimal(bettor[p].raw),
                                       odds |-> bettor[p].odds,
                                       status |-> "active", createdAt |-> now])
              /\ bettor' = CanonBettors([bettor EXCEPT ![p] = [@ EXCEPT !.pc = "update_pools",
                                                          !.betId = Len(bets) + 1,
                                                          !.odds = 0]])
         ELSE /\ bets' = bets
              /\ bettor' = CanonBettors([bettor EXCEPT ![p] = Return([@ EXCEPT !.dbFail = TRUE], "Internal")])
    /\ UNCHANGED <<markets, pool, chain, allowance, recalc, placed, conv, syncer, sfbLog, observe, now, reads, jobs>>

\* the UPDATE of update_market_pools: one statement, evaluated by the database
\* on the row as it is when the statement runs
update_market_pools_no_total(pl, position, amount) ==
    IF position
    THEN [pl EXCEPT !.yes = @ + amount, !.countYes = @ + 1]
    ELSE [pl EXCEPT !.no = @ + amount, !.countNo = @ + 1]

update_market_pools(pl, position, amount) ==
    IF position
    THEN [pl EXCEPT !.yes = @ + amount, !.total = @ + amount, !.countYes = @ + 1]
    ELSE [pl EXCEPT !.no = @ + amount, !.total = @ + amount, !.countNo = @ + 1]

\* what the successful calls wagered so far
Tally(t, position, amount) ==
    [yes |-> t.yes + (IF position THEN amount ELSE 0),
     no |-> t.no + (IF position THEN 0 ELSE amount),
     total |-> t.total + amount,
     countYes |-> t.countYes + (IF position THEN 1 ELSE 0),
     countNo |-> t.countNo + (IF position THEN 0 ELSE 1)]

PlaceBetUpdatePools(p) ==
    /\ bettor[p].pc = "update_pools"
    /\ \E dbOk \in BOOLEAN :
         LET b == bettor[p]
             a == raw_to_bigdecimal(b.raw)
         IN  IF dbOk
             THEN /\ pool' = [pool EXCEPT ![b.market] = update_market_pools(@, b.position, a)]
                  /\ placed' = [placed EXCEPT ![b.market] = Tally(@, b.position, a)]
                  /\ bettor' = CanonBettors([bettor EXCEPT ![p] = Return([@ EXCEPT !.poolInc = TRUE], "Ok")])
             ELSE /\ UNCHANGED <<pool, placed>>
                  /\ bettor' = CanonBettors([bettor EXCEPT ![p] = Return([@ EXCEPT !.dbFail = TRUE], "Internal")])
    /\ UNCHANGED <<markets, bets, chain, allowance, recalc, conv, syncer, sfbLog, observe, now, reads, jobs>>

PlaceBetStep(p) ==
    \/ PlaceBetMarketRead(p)
    \/ PlaceBetAllowance(p)
    \/ PlaceBetApproveSend(p)
    \/ PlaceBetApproveWait(p)
    \/ PlaceBetWagerSend(p)
    \/ PlaceBetWagerWait(p)
    \/ PlaceBetOdds(p)
    \/ PlaceBetInsert(p)
    \/ PlaceBetUpdatePools(p)

(***************************************************************************)
(* MarketService::recalculate_market_stats                                 *)
(***************************************************************************)
RECURSIVE SumAmount(_, _, _, _)
\* SUM(CASE WHEN position = pos THEN amount ELSE 0 END) over the rows of
\* bets_extended WHERE "marketId" = r AND status = 'active'
SumAmount(bs, r, pos, n) ==
    IF n = 0 THEN 0
    ELSE SumAmount(bs, r, pos, n - 1)
         + (IF bs[n].market = r /\ bs[n].status = "active" /\ bs[n].position = pos
            THEN bs[n].amount ELSE 0)

\* COUNT(CASE WHEN position = pos THEN 1 END) over the same rows
CountBets(bs, r, pos) ==
    Cardinality({n \in 1..Len(bs) :
        bs[n].market = r /\ bs[n].status = "active" /\ bs[n].position = pos})

IdleRecalc == [pc |-> "idle", market |-> NoRow, yes |-> 0, no |-> 0,
               countYes |-> 0, countNo |-> 0, updates |-> 0]

\* the SELECT of the sums
RecalcSelect(r) ==
    /\ recalc.pc = "idle"
    /\ markets[r].present
    /\ \E dbOk \in BOOLEAN :
         recalc' = IF dbOk
                   THEN [recalc EXCEPT !.pc = "update", !.market = r,
                            !.yes = SumAmount(bets, r, TRUE, Len(bets)),
                            !.no = SumAmount(bets, r, FALSE, Len(bets)),
                            !.countYes = CountBets(bets, r, TRUE),
                            !.countNo = CountBets(bets, r, FALSE)]
                   ELSE recalc
    /\ UNCHANGED <<markets, pool, bets, chain, allowance, bettor, placed, conv, syncer, sfbLog, observe, now, reads, jobs>>

\* let volume = &yes_volume + &no_volume; "totalPoolSize" = $7 binds volume
StatsRow(rc) ==
    [yes |-> rc.yes, no |-> rc.no, total |-> rc.yes + rc.no,
     countYes |-> rc.countYes, countNo |-> rc.countNo]

\* the UPDATE that stores the sums
RecalcUpdate ==
    /\ recalc.pc = "update"
    /\ \E dbOk \in BOOLEAN :
         /\ pool' = IF dbOk THEN [pool EXCEPT ![recalc.market] = StatsRow(recalc)] ELSE pool
         /\ recalc' = [IdleRecalc EXCEPT !.updates =
                          IF dbOk /\ recalc.updates < 1 THEN recalc.updates + 1
                          ELSE recalc.updates]
    /\ UNCHANGED <<markets, bets, chain, allowance, bettor, placed, conv, syncer, sfbLog, observe, now, reads, jobs>>

(***************************************************************************)
(* BetService::sync_bets_from_indexer                                      *)
(***************************************************************************)
\* a row of bet_placeds, the table the indexer fills; wager is the id of the
\* row that place_bet wrote for the same wager, 0 for a wager made on the
\* chain directly: no column holds it
BetPlaced(id, market_id, position, block_number, wager) ==
    [id |-> id, market_id |-> market_id, position |-> position,
     amount |-> 10 * USDC_UNIT, block_number |-> block_number, wager |-> wager]

\* a wager on the market of chain id 0 and a later wager on a market that the
\* database does not hold
bet_placeds ==
    <<BetPlaced(101, 0, TRUE, 1, 0), BetPlaced(102, 7, FALSE, 2, 0)>>

IdleIngest ==
    [pc |-> "idle", todo |-> <<>>, market |-> NoRow, odds |-> 0, runs |-> 0,
     result |-> "none"]

IdleBackfill == [pc |-> "idle", todo |-> <<>>, runs |-> 0, result |-> "none"]

\* the task that Scheduler::start spawns: where it is in its loop, its
\* sync_count, and "baseApy" of the one active protocol, in hundredths of a
\* percent
IdleTick == [pc |-> "waiting", sync_count |-> 0, baseApy |-> 0, apys |-> "none"]

\* no AdjacentMarket
NoFeed ==
    [adj_ticker |-> "", market_id |-> "", question |-> <<>>, status |-> "",
     result |-> NoResult]

\* a call of MarketSeeder::create_or_update_market
IdleSeed == [pc |-> "idle", api |-> NoFeed, existing |-> NoRow, result |-> "none"]

IdleJobs ==
    [ingest |-> IdleIngest, backfill |-> IdleBackfill, tick |-> IdleTick,
     seed |-> IdleSeed, events |-> bet_placeds]

\* a job returns Ok(..); its locals are dropped
JobReturn(j) == [j EXCEPT !.pc = "returned", !.todo = <<>>, !.result = "Ok"]

\* a job returns Err(..): a failed statement followed by ?
JobErr(j) == [j EXCEPT !.pc = "returned", !.todo = <<>>, !.result = "Err"]

HasBet(bs, id) == \E i \in 1..Len(bs) : bs[i].id = id

\* FROM bet_placeds bp LEFT JOIN bets_extended be ON be.id = bp.id
\* WHERE be.id IS NULL
UnprocessedOrNot(events, bs) == events

RECURSIVE Unprocessed(_, _)
Unprocessed(events, bs) ==
    IF events = <<>> THEN <<>>
    ELSE IF HasBet(bs, Head(events).id) THEN Unprocessed(Tail(events), bs)
    ELSE <<Head(events)>> \o Unprocessed(Tail(events), bs)

RECURSIVE InsertByBlock(_, _)
InsertByBlock(sorted, e) ==
    IF sorted = <<>> THEN <<e>>
    ELSE IF e.block_number < Head(sorted).block_number THEN <<e>> \o sorted
    ELSE <<Head(sorted)>> \o InsertByBlock(Tail(sorted), e)

RECURSIVE OrderByBlock(_)
\* ORDER BY bp.block_number ASC
OrderByBlock(events) ==
    IF events = <<>> THEN <<>>
    ELSE InsertByBlock(OrderByBlock(SubSeq(events, 1, Len(events) - 1)), events[Len(events)])

\* the LIMIT of the SELECT, which is 100 in the source
BatchLimit == 2

\* LIMIT n
Limit(rows, n) == IF Len(rows) <= n THEN rows ELSE SubSeq(rows, 1, n)

\* the next iteration of: for bet_record in unprocessed_bets
IngestNext(j) ==
    IF Len(j.todo) <= 1 THEN JobReturn(j)
    ELSE [j EXCEPT !.pc = "ing_market", !.todo = Tail(@), !.market = NoRow, !.odds = 0]

\* the SELECT of the unprocessed events
IngestStart ==
    /\ jobs.ingest.pc \in {"idle", "returned"}
    /\ jobs.ingest.runs < MaxRuns
    /\ \E dbOk \in BOOLEAN :
         LET j == [jobs.ingest EXCEPT !.runs = @ + 1, !.result = "none"]
             unprocessed_bets ==
                 Limit(OrderByBlock(Unprocessed(jobs.events, bets)), BatchLimit)
         IN  jobs' = [jobs EXCEPT !.ingest =
                IF ~dbOk THEN JobErr(j)
                ELSE IF unprocessed_bets = <<>> THEN JobReturn(j)
                ELSE [j EXCEPT !.pc = "ing_market", !.todo = unprocessed_bets,
                               !.market = NoRow, !.odds = 0]]
    /\ UNCHANGED <<markets, pool, bets, chain, allowance, bettor, recalc, placed, conv, syncer, sfbLog, observe, now, reads>>

\* the user of the event is looked up or created, then SELECT id,
\* "yesPoolSize", "noPoolSize", "totalPoolSize" WHERE "blockchainMarketId" = $1
\* and the odds computed from that row, format!("{:.2}", calculated_odds)
IngestMarket ==
    /\ jobs.ingest.pc = "ing_market"
    /\ \E dbOk \in BOOLEAN :
         LET j == jobs.ingest
             e == Head(j.todo)
         IN  IF ~dbOk THEN jobs' = [jobs EXCEPT !.ingest = JobErr(j)]
             ELSE \E r \in FetchOptional({x \in Rows : markets[x].present
                                                       /\ markets[x].chainId = e.market_id}) :
                    IF r = NoRow THEN jobs' = [jobs EXCEPT !.ingest = IngestNext(j)]
                    ELSE \E odds_decimal \in FormatOdds(calculated_odds(pool[r], e.position), 2) :
                           jobs' = [jobs EXCEPT !.ingest =
                              [j EXCEPT !.pc = "ing_insert", !.market = r,
                                        !.odds = odds_decimal]]
    /\ UNCHANGED <<markets, pool, bets, chain, allowance, bettor, recalc, placed, conv, syncer, sfbLog, observe, now, reads>>

\* SELECT id FROM bets_extended WHERE id = $1, and unless a row exists the
\* INSERT INTO bets_extended of the event under its own id
IngestInsert ==
    /\ jobs.ingest.pc = "ing_insert"
    /\ \E dbOk \in BOOLEAN :
         LET j == jobs.ingest
             e == Head(j.todo)
         IN  IF ~dbOk
             THEN /\ jobs' = [jobs EXCEPT !.ingest = JobErr(j)]
                  /\ bets' = bets
             ELSE /\ jobs' = [jobs EXCEPT !.ingest = IngestNext(j)]
                  /\ bets' = IF HasBet(bets, e.id) THEN bets
                             ELSE Append(bets, [id |-> e.id, market |-> j.market,
                                                position |-> e.position,
                                                amount |-> e.amount,
                                                odds |-> j.odds,
                                                status |-> "active", createdAt |-> now])
    /\ UNCHANGED <<markets, pool, chain, allowance, bettor, recalc, placed, conv, syncer, sfbLog, observe, now, reads>>

\* the ids of the rows that place_bet wrote: the others carry the id of an
\* event
PlacedRows == {bets[i].id : i \in {k \in 1..Len(bets) : bets[k].id < 100}}

\* the indexer, which is outside the repository, records the BetPlaced event
\* of a wager that place_bet made on the chain: a new row of bet_placeds under
\* an id of the indexer's own
IndexerRecords ==
    /\ \E i \in 1..Len(bets) :
         /\ bets[i].id \in PlacedRows
         /\ \A k \in 1..Len(jobs.events) : jobs.events[k].wager # bets[i].id
         /\ jobs' = [jobs EXCEPT !.events = Append(@,
                [id |-> 101 + Len(jobs.events),
                 market_id |-> markets[bets[i].market].chainId,
                 position |-> bets[i].position, amount |-> bets[i].amount,
                 block_number |-> 1 + Len(jobs.events), wager |-> bets[i].id])]
    /\ UNCHANGED <<markets, pool, bets, chain, allowance, bettor, recalc, placed, conv, syncer, sfbLog, observe, now, reads>>

(***************************************************************************)
(* BetService::recalculate_odds_for_existing_bets                          *)
(***************************************************************************)
RECURSIVE OddsOneRows(_, _)
\* FROM bets_extended b JOIN markets_extended m ON b."marketId" = m.id
\* WHERE b.odds = '1.0' OR b.odds = '1.00'
OddsOneRows(bs, pl) ==
    IF bs = <<>> THEN <<>>
    ELSE IF Head(bs).odds = OddsOne
         THEN <<[id |-> Head(bs).id, position |-> Head(bs).position,
                 pool |-> pl[Head(bs).market]]>> \o OddsOneRows(Tail(bs), pl)
         ELSE OddsOneRows(Tail(bs), pl)

\* the SELECT of the rows to update, each with the pools of its market
BackfillSelect ==
    /\ jobs.backfill.pc \in {"idle", "returned"}
    /\ jobs.backfill.runs < MaxRuns
    /\ \E dbOk \in BOOLEAN :
         LET j == [jobs.backfill EXCEPT !.runs = @ + 1, !.result = "none"]
             bets_to_update == OddsOneRows(bets, pool)
         IN  jobs' = [jobs EXCEPT !.backfill =
                IF ~dbOk THEN JobErr(j)
                ELSE IF bets_to_update = <<>> THEN JobReturn(j)
                ELSE [j EXCEPT !.pc = "bf_update", !.todo = bets_to_update]]
    /\ UNCHANGED <<markets, pool, bets, chain, allowance, bettor, recalc, placed, conv, syncer, sfbLog, observe, now, reads>>

\* UPDATE bets_extended SET odds = $1 WHERE id = $2
SetOdds(bs, id, odds) ==
    [i \in 1..Len(bs) |-> IF bs[i].id = id THEN [bs[i] EXCEPT !.odds = odds] ELSE bs[i]]

\* one iteration of: for bet in bets_to_update
BackfillUpdate ==
    /\ jobs.backfill.pc = "bf_update"
    /\ \E dbOk \in BOOLEAN :
         LET j == jobs.backfill
             bet == Head(j.todo)
         IN  IF ~dbOk
             THEN /\ jobs' = [jobs EXCEPT !.backfill = JobErr(j)]
                  /\ bets' = bets
             ELSE \E odds_decimal \in FormatOdds(calculated_odds(bet.pool, bet.position), 2) :
                    /\ bets' = SetOdds(bets, bet.id, odds_decimal)
                    /\ jobs' = [jobs EXCEPT !.backfill =
                          IF Len(j.todo) <= 1 THEN JobReturn(j)
                          ELSE [j EXCEPT !.todo = Tail(@)]]
    /\ UNCHANGED <<markets, pool, chain, allowance, bettor, recalc, placed, conv, syncer, sfbLog, observe, now, reads>>

(***************************************************************************)
(* ChartService::get_market_chart_data.  A timestamp column is kept as the *)
(* epoch second that EXTRACT(EPOCH FROM ..)::BIGINT of the queries yields  *)
(* for it.  An f64 quotient is kept as the pair <<n, d>>.                  *)
(***************************************************************************)
\* Option<i64>: None, Some(v) and the value of a Some
None == <<>>

Some(v) == <<v>>

Unwrap(o) == o[1]

\* i64::MAX, the width of i64 scaled down to that of the integers of the
\* model checker
I64_MAX == 2147483647

\* the division of i64, which truncates towards zero
TruncDiv(a, b) == IF a >= 0 THEN a \div b ELSE -((-a) \div b)

validate_interval_or_an_hour(interval) ==
    CASE interval = "1m" -> [ok |-> TRUE, seconds |-> 60]
      [] interval = "5m" -> [ok |-> TRUE, seconds |-> 300]
      [] interval = "15m" -> [ok |-> TRUE, seconds |-> 900]
      [] interval = "4h" -> [ok |-> TRUE, seconds |-> 14400]
      [] interval = "1d" -> [ok |-> TRUE, seconds |-> 86400]
      [] OTHER -> [ok |-> TRUE, seconds |-> 3600]

validate_interval(interval) ==
    CASE interval = "1m" -> [ok |-> TRUE, seconds |-> 60]
      [] interval = "5m" -> [ok |-> TRUE, seconds |-> 300]
      [] interval = "15m" -> [ok |-> TRUE, seconds |-> 900]
      [] interval = "1h" -> [ok |-> TRUE, seconds |-> 3600]
      [] interval = "4h" -> [ok |-> TRUE, seconds |-> 14400]
      [] interval = "1d" -> [ok |-> TRUE, seconds |-> 86400]
      [] OTHER -> [ok |-> FALSE, seconds |-> 0]

\* (timestamp / interval_seconds) * interval_seconds
BucketOf(timestamp, interval_seconds) ==
    TruncDiv(timestamp, interval_seconds) * interval_seconds

RECURSIVE InsertByCreatedAt(_, _)
InsertByCreatedAt(sorted, b) ==
    IF sorted = <<>> THEN <<b>>
    ELSE IF b.createdAt < Head(sorted).createdAt THEN <<b>> \o sorted
    ELSE <<Head(sorted)>> \o InsertByCreatedAt(Tail(sorted), b)

RECURSIVE OrderByCreatedAt(_)
\* ORDER BY "createdAt" ASC
OrderByCreatedAt(bs) ==
    IF bs = <<>> THEN <<>>
    ELSE InsertByCreatedAt(OrderByCreatedAt(SubSeq(bs, 1, Len(bs) - 1)), bs[Len(bs)])

RECURSIVE Where(_, _, _, _)
\* the rows of bets_extended WHERE "marketId" IN ids AND timestamp BETWEEN $3
\* AND $4
Where(bs, ids, from_timestamp, to_timestamp) ==
    IF bs = <<>> THEN <<>>
    ELSE LET b == Head(bs)
             rest == Where(Tail(bs), ids, from_timestamp, to_timestamp)
         IN  IF /\ b.market \in ids
                /\ from_timestamp <= b.createdAt
                /\ b.createdAt <= to_timestamp
             THEN <<[position |-> b.position, amount |-> b.amount,
                     timestamp |-> b.createdAt]>> \o rest
             ELSE rest

\* the bets that the second query of the handler fetches
FetchBets(m, bs, market_id, blockchain_market_id, from_timestamp, to_timestamp) ==
    LET ids == {r \in Rows : /\ m[r].present
                              /\ \/ r = market_id
                                 \/ m[r].ticker = market_id
                                 \/ m[r].chainId = blockchain_market_id}
    IN  Where(OrderByCreatedAt(bs), ids, from_timestamp, to_timestamp)

\* the start of the series: the explicit from, else the timestamp of the
\* first fetched bet, else the creation time of the market
actual_start_timestamp(from, fetched, market_created_at) ==
    IF from # None THEN Unwrap(from)
    ELSE IF fetched = <<>> THEN market_created_at
    ELSE Head(fetched).timestamp

RECURSIVE Times(_, _, _)
\* while current <= end_bucket { times.push(current); current +=
\* interval_seconds }
Times(current, end_bucket, interval_seconds) ==
    IF current > end_bucket THEN <<>>
    ELSE <<current>> \o Times(current + interval_seconds, end_bucket, interval_seconds)

\* the last current += interval_seconds of the loop overflows i64
TimesOverflow(start_bucket, end_bucket, interval_seconds) ==
    start_bucket <= end_bucket /\ end_bucket > I64_MAX - interval_seconds

\* the text of the NUMERIC amount before its '.', parsed as i64; the amounts
\* of the table are whole numbers of base units
amount_i64(amount) == amount

ZeroBucket ==
    [yes_volume |-> 0, no_volume |-> 0, yes_count |-> 0, no_count |-> 0,
     yes_total |-> 0, no_total |-> 0]

RECURSIVE TimeBuckets(_, _, _, _, _)
\* for bet in bets: the entry of the bet's bucket takes the bet and the totals
\* over all bets so far
TimeBuckets(fetched, interval_seconds, yes_total, no_total, time_buckets) ==
    IF fetched = <<>> THEN time_buckets
    ELSE LET bet == Head(fetched)
             bucket_time == BucketOf(bet.timestamp, interval_seconds)
             entry == IF bucket_time \in DOMAIN time_buckets
                      THEN time_buckets[bucket_time] ELSE ZeroBucket
             a == amount_i64(bet.amount)
             y == IF bet.position THEN yes_total + a ELSE yes_total
             n == IF bet.position THEN no_total ELSE no_total + a
             new == IF bet.position
                    THEN [entry EXCEPT !.yes_volume = @ + a, !.yes_count = @ + 1,
                                       !.yes_total = y, !.no_total = n]
                    ELSE [entry EXCEPT !.no_volume = @ + a, !.no_count = @ + 1,
                                       !.yes_total = y, !.no_total = n]
         IN  TimeBuckets(Tail(fetched), interval_seconds, y, n,
                         [k \in DOMAIN time_buckets \cup {bucket_time} |->
                             IF k = bucket_time THEN new ELSE time_buckets[k]])

\* the eight points pushed for a time, one to each series
PointPerBucketFlow(time, bucket, running_yes_pool, running_no_pool, count) ==
    LET total_pool == bucket.yes_volume + bucket.no_volume
        yes_prob == IF total_pool > 0 THEN <<bucket.yes_volume, total_pool>> ELSE <<1, 2>>
        no_prob == <<yes_prob[2] - yes_prob[1], yes_prob[2]>>
    IN  [time |-> time, yes_probability |-> yes_prob, no_probability |-> no_prob,
         yes_volume |-> bucket.yes_volume, no_volume |-> bucket.no_volume,
         total_volume |-> total_pool,
         yes_odds |-> IF yes_prob[1] > 0 THEN <<yes_prob[2], yes_prob[1]>> ELSE <<2, 1>>,
         no_odds |-> IF no_prob[1] > 0 THEN <<no_prob[2], no_prob[1]>> ELSE <<2, 1>>,
         bet_count |-> count]

Point(time, bucket, running_yes_pool, running_no_pool, count) ==
    LET total_pool == running_yes_pool + running_no_pool
        yes_prob == IF total_pool > 0 THEN <<running_yes_pool, total_pool>> ELSE <<1, 2>>
        no_prob == <<yes_prob[2] - yes_prob[1], yes_prob[2]>>
    IN  [time |-> time, yes_probability |-> yes_prob, no_probability |-> no_prob,
         yes_volume |-> running_yes_pool, no_volume |-> running_no_pool,
         total_volume |-> total_pool,
         yes_odds |-> IF yes_prob[1] > 0 THEN <<yes_prob[2], yes_prob[1]>> ELSE <<2, 1>>,
         no_odds |-> IF no_prob[1] > 0 THEN <<no_prob[2], no_prob[1]>> ELSE <<2, 1>>,
         bet_count |-> count]

RECURSIVE Series(_, _, _, _)
\* for time in times: the running pools are those of the bucket of the time
\* where there is one, and those of the time before otherwise
Series(times, time_buckets, running_yes_pool, running_no_pool) ==
    IF times = <<>> THEN <<>>
    ELSE LET time == Head(times)
             hit == time \in DOMAIN time_buckets
             b == IF hit THEN time_buckets[time] ELSE ZeroBucket
             y == IF hit THEN b.yes_total ELSE running_yes_pool
             n == IF hit THEN b.no_total ELSE running_no_pool
         IN  <<Point(time, b, y, n, b.yes_count + b.no_count)>>
             \o Series(Tail(times), time_buckets, y, n)

\* a call of get_market_chart_data
IdleChart ==
    [pc |-> "idle", market_id |-> "", interval |-> "", interval_seconds |-> 0,
     from |-> None, to |-> None, market_created_at |-> 0, blockchain_market_id |-> 0,
     to_timestamp |-> 0, queries |-> 0, result |-> "none", fetched |-> <<>>,
     points |-> <<>>]

IdleReads == [chart |-> IdleChart, status |-> <<>>]

\* the longest series that the model follows
MaxPoints == 12

\* the call and Self::validate_interval(interval)?
ChartCall(market_ids, intervals, ranges) ==
    /\ reads.chart.pc \in {"idle", "returned"}
    /\ \E market_id \in market_ids, interval \in intervals, range \in ranges :
         LET v == validate_interval(interval)
             c == [IdleChart EXCEPT !.market_id = market_id, !.interval = interval,
                                    !.from = range[1], !.to = range[2]]
         IN  reads' = [reads EXCEPT !.chart =
                IF ~v.ok THEN [c EXCEPT !.pc = "returned", !.result = "BadRequest"]
                ELSE [c EXCEPT !.pc = "chart_market", !.interval_seconds = v.seconds]]
    /\ UNCHANGED <<markets, pool, bets, chain, allowance, bettor, recalc, placed, conv, syncer, sfbLog, observe, jobs, now>>

\* SELECT .. "createdAt", "blockchainMarketId" FROM markets_extended
\* WHERE id = $1 OR "adjTicker" = $1 LIMIT 1, and the defaults
ChartMarket ==
    /\ reads.chart.pc = "chart_market"
    /\ \E dbOk \in BOOLEAN :
         LET c == [reads.chart EXCEPT !.queries = @ + 1]
         IN  IF ~dbOk
             THEN reads' = [reads EXCEPT !.chart =
                               [c EXCEPT !.pc = "returned", !.result = "Internal"]]
             ELSE \E market \in FetchOptional({r \in Rows :
                          /\ markets[r].present
                          /\ r = c.market_id \/ markets[r].ticker = c.market_id}) :
                    reads' = [reads EXCEPT !.chart =
                       [c EXCEPT !.pc = "chart_bets",
                                 !.market_created_at =
                                     IF market = NoRow THEN now - 86400 * 7
                                     ELSE markets[market].createdAt,
                                 !.blockchain_market_id =
                                     IF market = NoRow \/ markets[market].chainId = NULL
                                     THEN 0 ELSE markets[market].chainId,
                                 !.to_timestamp = IF c.to = None THEN now ELSE Unwrap(c.to)]]
    /\ UNCHANGED <<markets, pool, bets, chain, allowance, bettor, recalc, placed, conv, syncer, sfbLog, observe, jobs, now>>

\* the SELECT of the bets and the series built from them; an overflow of
\* current += interval_seconds panics or wraps, by the build, and a wrapped
\* loop does not end
ChartBets ==
    /\ reads.chart.pc = "chart_bets"
    /\ \E dbOk \in BOOLEAN, build \in {"panics", "wraps"} :
         LET c == [reads.chart EXCEPT !.queries = @ + 1]
             from_timestamp == IF c.from = None THEN c.market_created_at
                               ELSE Unwrap(c.from)
             bs == FetchBets(markets, bets, c.market_id, c.blockchain_market_id,
                             from_timestamp, c.to_timestamp)
             start_bucket == BucketOf(actual_start_timestamp(c.from, bs,
                                          c.market_created_at), c.interval_seconds)
             end_bucket == BucketOf(c.to_timestamp, c.interval_seconds)
         IN  IF ~dbOk
             THEN reads' = [reads EXCEPT !.chart =
                               [c EXCEPT !.pc = "returned", !.result = "Internal"]]
             ELSE IF TimesOverflow(start_bucket, end_bucket, c.interval_seconds)
             THEN reads' = [reads EXCEPT !.chart =
                               [c EXCEPT !.pc = IF build = "panics" THEN "panicked"
                                                ELSE "unending",
                                         !.fetched = bs]]
             ELSE /\ end_bucket - start_bucket <= MaxPoints * c.interval_seconds
                  /\ reads' = [reads EXCEPT !.chart =
                        [c EXCEPT !.pc = "returned", !.result = "Ok", !.fetched = bs,
                                  !.points =
                                     Series(Times(start_bucket, end_bucket,
                                                  c.interval_seconds),
                                            TimeBuckets(bs, c.interval_seconds, 0, 0, <<>>),
                                            0, 0)]]
    /\ UNCHANGED <<markets, pool, bets, chain, allowance, bettor, recalc, placed, conv, syncer, sfbLog, observe, jobs, now>>

(***************************************************************************)
(* Scheduler::start: the loop of the spawned task.                         *)
(***************************************************************************)
\* the ticks that the model follows
MaxTicks == 2

\* what getCurrentApy() of the adapter may return, in basis points;
\* format!("{:.2}", apy_basis_points / 100.0) keeps both decimals
CurrentApys == {300, 450}

\* match job.await { Ok(..) => info!(..), Err(e) => error!(..) }: either arm
\* logs, and the task goes on with what follows the match
MatchLoggedOrEnds(t, result, next) ==
    [t EXCEPT !.pc = IF result = "Err" THEN "ended" ELSE next]

MatchLogged(t, result, next) == [t EXCEPT !.pc = next]

\* interval.tick().await; sync_count += 1
SchedTick ==
    /\ jobs.tick.pc = "waiting"
    /\ jobs.tick.sync_count < MaxTicks
    /\ jobs' = [jobs EXCEPT !.tick.pc = "apys", !.tick.sync_count = @ + 1]
    /\ UNCHANGED <<markets, pool, bets, chain, allowance, bettor, recalc, placed, conv, syncer, sfbLog, observe, now, reads>>

\* protocol_service.update_all_apys_from_blockchain(&rpc_url): Err when the
\* provider or the SELECT fails; a failed getCurrentApy() or UPDATE is logged
\* and "baseApy" kept; either arm of the match only logs
SchedApys ==
    /\ jobs.tick.pc = "apys"
    /\ \E outcome \in {"err", "kept", "updated"}, apy \in CurrentApys :
         LET result == IF outcome = "err" THEN "Err" ELSE "Ok"
             t == [jobs.tick EXCEPT !.apys = result,
                                    !.baseApy = IF outcome = "updated" THEN apy ELSE @]
         IN  jobs' = [jobs EXCEPT !.tick = MatchLogged(t, result, "full_sync")]
    /\ UNCHANGED <<markets, pool, bets, chain, allowance, bettor, recalc, placed, conv, syncer, sfbLog, observe, now, reads>>

\* sync_service.run_full_sync(): the body is Ok(())
SchedFullSync ==
    /\ jobs.tick.pc = "full_sync"
    /\ jobs' = [jobs EXCEPT !.tick = MatchLogged(@, "Ok", "ingest")]
    /\ UNCHANGED <<markets, pool, bets, chain, allowance, bettor, recalc, placed, conv, syncer, sfbLog, observe, now, reads>>

\* the scheduler has yet to call sync_bets_from_indexer in this tick
IngestDue ==
    /\ jobs.tick.pc = "ingest"
    /\ jobs.ingest.runs < jobs.tick.sync_count

\* sync_bets_from_indexer has returned, with Ok or Err: either arm of the
\* match only logs, and the loop awaits the next tick
SchedIngestDone ==
    /\ jobs.tick.pc = "ingest"
    /\ jobs.ingest.runs = jobs.tick.sync_count
    /\ jobs.ingest.pc = "returned"
    /\ jobs' = [jobs EXCEPT !.tick = MatchLogged(@, jobs.ingest.result, "waiting")]
    /\ UNCHANGED <<markets, pool, bets, chain, allowance, bettor, recalc, placed, conv, syncer, sfbLog, observe, now, reads>>

(***************************************************************************)
(* SyncService::get_sync_status and the clock.                             *)
(***************************************************************************)
\* the latest time that the model follows
MaxClock == 2

\* the reads of the status that the model follows
MaxReads == 2

\* time passes
ClockTick ==
    /\ now < MaxClock
    /\ now' = now + 1
    /\ UNCHANGED <<markets, pool, bets, chain, allowance, bettor, recalc, placed, conv, syncer, sfbLog, observe, jobs, reads>>

\* DateTime::to_rfc3339: the text of an instant; distinct instants have
\* distinct texts
to_rfc3339(t) == <<"rfc3339", t>>

\* the three SELECT COUNT(*) (the protocols table is not in the model) and
\* the response, whose last_sync_time is Some(chrono::Utc::now().to_rfc3339());
\* sched is the position of the scheduler at the time of the read, which the
\* response does not hold
GetSyncStatus ==
    /\ Len(reads.status) < MaxReads
    /\ \E dbOk \in BOOLEAN :
         reads' = [reads EXCEPT !.status = Append(@,
            IF ~dbOk
            THEN [result |-> "Internal", last_synced_block |-> 0, is_syncing |-> FALSE,
                  markets_synced |-> 0, bets_synced |-> 0, last_sync_time |-> None,
                  sched |-> jobs]
            ELSE [result |-> "Ok", last_synced_block |-> 0, is_syncing |-> FALSE,
                  markets_synced |-> Cardinality({r \in Rows : markets[r].present}),
                  bets_synced |-> Len(bets),
                  last_sync_time |-> Some(to_rfc3339(now)),
                  sched |-> jobs])]
    /\ UNCHANGED <<markets, pool, bets, chain, allowance, bettor, recalc, placed, conv, syncer, sfbLog, observe, jobs, now>>

(***************************************************************************)
(* Question texts are sequences of characters.                             *)
(***************************************************************************)
RECURSIVE TrimStart(_)
TrimStart(s) == IF s # <<>> /\ Head(s) = " " THEN TrimStart(Tail(s)) ELSE s

RECURSIVE TrimEnd(_)
TrimEnd(s) ==
    IF s # <<>> /\ s[Len(s)] = " " THEN TrimEnd(SubSeq(s, 1, Len(s) - 1)) ELSE s

\* str::trim
Trim(s) == TrimEnd(TrimStart(s))

\* str::starts_with
StartsWith(s, prefix) ==
    Len(prefix) <= Len(s) /\ SubSeq(s, 1, Len(prefix)) = prefix

RECURSIVE Like(_, _)
\* the LIKE operator: % matches any run of characters, _ any one character
Like(s, pat) ==
    IF pat = <<>> THEN s = <<>>
    ELSE IF Head(pat) = "%"
         THEN Like(s, Tail(pat)) \/ (s # <<>> /\ Like(Tail(s), pat))
    ELSE IF s = <<>> THEN FALSE
    ELSE (Head(pat) = "_" \/ Head(pat) = Head(s)) /\ Like(Tail(s), Tail(pat))

(***************************************************************************)
(* The statements that write "blockchainMarketId".                         *)
(***************************************************************************)
\* the unique index on "blockchainMarketId" (its constraint is named
\* blockchainMarketId_key): the statement that would give row id the chain id
\* k fails when another row holds k
UniqueViolationNever(m, id, k) == FALSE

UniqueViolation(m, id, k) ==
    \E r \in Rows : r # id /\ m[r].present /\ m[r].chainId = k

\* UPDATE .. SET "blockchainMarketId" = k WHERE id = $2
AssignAlways(m, id, k) ==
    IF UniqueViolation(m, id, k) THEN [res |-> "dup", m |-> m]
    ELSE [res |-> "hit", m |-> [m EXCEPT ![id].chainId = k]]

\* UPDATE .. SET "blockchainMarketId" = k
\* WHERE id = $2 AND "blockchainMarketId" IS NULL
AssignWhateverHeld(m, id, k) == AssignAlways(m, id, k)

AssignIfNull(m, id, k) ==
    IF m[id].chainId # NULL THEN [res |-> "miss", m |-> m]
    ELSE AssignAlways(m, id, k)

(***************************************************************************)
(* The chain.                                                              *)
(***************************************************************************)
\* the longest question text the contract stores
ChainQuestionLimit == 1

\* what createMarket(question, ..) stores
ChainStore(q) ==
    IF Len(q) <= ChainQuestionLimit THEN q ELSE SubSeq(q, 1, ChainQuestionLimit)

\* the most markets the contract comes to hold in the model
MaxChain == 2

\* the passes one process runs one after the other
MaxPasses == 2

NumSyncers == 2

Syncers == 1..NumSyncers

\* ORDER BY "createdAt" ASC
RowOrder == <<"A", "B", "C">>

(***************************************************************************)
(* A reconciliation pass.                                                  *)
(***************************************************************************)
NoStats == [op |-> "none", writes |-> 0, txs |-> 0, failed |-> FALSE, result |-> "none"]

IdleSyncer ==
    [op |-> "none", pc |-> "idle", k |-> 0, total |-> 0, bq |-> <<>>, mid |-> NoRow,
     todo |-> <<>>, newId |-> NULL, synced |-> 0, result |-> "none",
     writes |-> 0, txs |-> 0, failed |-> FALSE, runs |-> 0, prev |-> NoStats,
     issued |-> {}, confirmed |-> {}]

CanStart(p) == syncer[p].pc \in {"idle", "returned"} /\ syncer[p].runs < MaxPasses

\* The figures of a pass (how many rows it wrote, how many transactions it
\* sent, whether a call of it failed, what it returned) are recorded where
\* observe holds; they have no effect on what the pass does.
Begin(sy, op) ==
    IF observe
    THEN [IdleSyncer EXCEPT !.op = op, !.runs = sy.runs + 1,
             !.confirmed = sy.confirmed,
             !.prev = [op |-> sy.op, writes |-> sy.writes, txs |-> sy.txs,
                       failed |-> sy.failed, result |-> sy.result]]
    ELSE IdleSyncer

\* the pass returns
Finish(sy, result) ==
    [sy EXCEPT !.pc = "returned", !.result = IF observe THEN result ELSE "none",
               !.k = 0, !.total = 0, !.bq = <<>>, !.mid = NoRow, !.todo = <<>>,
               !.newId = NULL]

\* a chain call or a database statement of the pass failed
Failed(sy) == IF observe THEN [sy EXCEPT !.failed = TRUE] ELSE sy

\* the pass sent the UPDATE that gives row id the chain id k
Issued(sy, id, k) ==
    IF observe THEN [sy EXCEPT !.issued = @ \cup {[row |-> id, k |-> k]}] ELSE sy

\* the pass changed a row
Wrote(sy) == IF observe THEN [sy EXCEPT !.writes = @ + 1] ELSE sy

\* synced_count += 1, after an UPDATE that affected a row
Synced(sy) == IF observe THEN [sy EXCEPT !.synced = @ + 1, !.writes = @ + 1] ELSE sy

\* Ok(Some(receipt)) of pending_tx.await: the createMarket transaction the
\* pass sent for row id is confirmed in a block
CreationConfirmed(sy, id) ==
    IF observe THEN [sy EXCEPT !.confirmed = @ \cup {id}] ELSE sy

\* the pass sent a transaction
Sent(sy) == IF observe THEN [sy EXCEPT !.txs = @ + 1] ELSE sy

LinkedRows(m, k) == {r \in Rows : m[r].present /\ m[r].chainId = k}

(***************************************************************************)
(* The passes are started by requests (routes/sync.rs) and have no         *)
(* identity of their own: where their figures are not recorded, the passes *)
(* are kept in the order of their positions in the code, so that two       *)
(* states that differ in the numbering of the passes only are one state.   *)
(***************************************************************************)
PcRank ==
    [idle |-> 1, returned |-> 2,
     sfb_read |-> 3, sfb_prefix |-> 4, sfb_recheck |-> 6,
     sfb_update |-> 7,
     smb_total |-> 8, smb_scan |-> 9,
     smb_check_id |-> 12, smb_send |-> 13, smb_wait |-> 14,
     smb_fix_question |-> 16, smb_link |-> 17,
     vbs_read |-> 18, vbs_by_question |-> 19, vbs_update |-> 20,
     ups_update |-> 21, ups_insert |-> 22]

RowRank == [none |-> 0, A |-> 1, B |-> 2, C |-> 3]

Key(sy) ==
    ((((PcRank[sy.pc] * 8 + sy.k) * 8 + RowRank[sy.mid]) * 8 + (sy.newId + 1)) * 8
        + sy.total) * 8 + Len(sy.todo)

RECURSIVE Insert(_, _)
Insert(sy, s) ==
    IF s = <<>> THEN <<sy>>
    ELSE IF Key(sy) <= Key(Head(s)) THEN <<sy>> \o s
    ELSE <<Head(s)>> \o Insert(sy, Tail(s))

RECURSIVE Sort(_)
Sort(s) == IF s = <<>> THEN <<>> ELSE Insert(Head(s), Sort(Tail(s)))

Canon(s) == IF observe THEN s ELSE Sort(s)

(***************************************************************************)
(* SyncService::sync_from_blockchain                                       *)
(***************************************************************************)
\* the next iteration of: for blockchain_id in 0..total_blockchain_markets
SfbNext(sy) ==
    IF sy.k + 1 >= sy.total THEN Finish(sy, "Ok")
    ELSE [sy EXCEPT !.pc = "sfb_read", !.k = @ + 1, !.bq = <<>>, !.mid = NoRow]

\* contract.next_market_id().call()
SfbStart(p) ==
    /\ CanStart(p)
    /\ \E ok \in BOOLEAN :
         LET sy == Begin(syncer[p], "sfb")
         IN  syncer' = Canon([syncer EXCEPT ![p] =
                IF ~ok THEN Finish(Failed(sy), "Err")
                ELSE IF Len(chain) = 0 THEN Finish(sy, "Ok")
                ELSE [sy EXCEPT !.pc = "sfb_read", !.total = Len(chain)]])
    /\ UNCHANGED <<markets, chain, sfbLog>>
    /\ UNCHANGED notRecon

\* WHERE question = $1 AND "blockchainMarketId" IS NULL
ExactUnlinked(m, q) ==
    {r \in Rows : m[r].present /\ m[r].question = q /\ m[r].chainId = NULL}

\* WHERE question LIKE $1 AND "blockchainMarketId" IS NULL, $1 being
\* format!("{}%", blockchain_question)
PrefixUnlinked(m, q) ==
    {r \in Rows : m[r].present /\ Like(m[r].question, q \o <<"%">>) /\ m[r].chainId = NULL}

\* contract.markets(blockchain_id).call(), then the SELECT of the exact match
SfbRead(p) ==
    /\ syncer[p].pc = "sfb_read"
    /\ \E chainOk \in BOOLEAN, dbOk \in BOOLEAN :
         LET sy == syncer[p]
             bq == Trim(chain[sy.k + 1])
         IN  IF ~chainOk THEN syncer' = Canon([syncer EXCEPT ![p] = SfbNext(Failed(sy))])
             ELSE IF ~dbOk THEN syncer' = Canon([syncer EXCEPT ![p] = Finish(Failed(sy), "Err")])
             ELSE \E r \in FetchOptional(ExactUnlinked(markets, bq)) :
                    syncer' = Canon([syncer EXCEPT ![p] =
                       IF r = NoRow THEN [sy EXCEPT !.pc = "sfb_prefix", !.bq = bq]
                       ELSE [sy EXCEPT !.pc = "sfb_recheck", !.bq = bq, !.mid = r]])
    /\ UNCHANGED <<markets, chain, sfbLog>>
    /\ UNCHANGED notRecon

\* the SELECT of the prefix match; when no row matches either, the SELECT
\* .. WHERE question = $1 OR "blockchainMarketId" = $2, whose result is only
\* logged
SfbPrefix(p) ==
    /\ syncer[p].pc = "sfb_prefix"
    /\ \E dbOk \in BOOLEAN :
         LET sy == syncer[p]
         IN  IF ~dbOk THEN syncer' = Canon([syncer EXCEPT ![p] = Finish(Failed(sy), "Err")])
             ELSE \E r \in FetchOptional(PrefixUnlinked(markets, sy.bq)) :
                    syncer' = Canon([syncer EXCEPT ![p] =
                       IF r = NoRow THEN SfbNext(sy)
                       ELSE [sy EXCEPT !.pc = "sfb_recheck", !.mid = r]])
    /\ UNCHANGED <<markets, chain, sfbLog>>
    /\ UNCHANGED notRecon

\* if let Some(existing) = existing_blockchain_id { if existing.id != market_id
\* { continue } }
SkipsClaimed(m, k, mid) == \E r \in LinkedRows(m, k) : r # mid

\* SELECT id FROM markets_extended WHERE "blockchainMarketId" = $1
SfbRecheck(p) ==
    /\ syncer[p].pc = "sfb_recheck"
    /\ \E dbOk \in BOOLEAN :
         syncer' = Canon([syncer EXCEPT ![p] =
            IF ~dbOk THEN Finish(Failed(@), "Err")
            ELSE IF SkipsClaimed(markets, @.k, @.mid) THEN SfbNext(@)
            ELSE [@ EXCEPT !.pc = "sfb_update"]])
    /\ UNCHANGED <<markets, chain, sfbLog>>
    /\ UNCHANGED notRecon

\* the conditional UPDATE and the match on its result
SfbUpdate(p) ==
    /\ syncer[p].pc = "sfb_update"
    /\ \E dbOk \in BOOLEAN :
         LET sy == syncer[p]
             u == AssignIfNull(markets, sy.mid, sy.k)
             res == IF dbOk THEN u.res ELSE "err"
         IN  /\ markets' = IF dbOk THEN u.m ELSE markets
             /\ sfbLog' = IF observe
                          THEN sfbLog \cup {[p |-> p, k |-> sy.k, row |-> sy.mid, res |-> res]}
                          ELSE sfbLog
             /\ syncer' = Canon([syncer EXCEPT ![p] =
                   IF res = "hit"
                   THEN SfbNext(Synced(sy))
                   ELSE IF res = "err" THEN SfbNext(Failed(sy))
                   ELSE SfbNext(sy)])
    /\ UNCHANGED chain
    /\ UNCHANGED notRecon

SfbStep(p) ==
    \/ SfbRead(p)
    \/ SfbPrefix(p)
    \/ SfbRecheck(p)
    \/ SfbUpdate(p)

(***************************************************************************)
(* BlockchainSyncService::sync_markets_to_blockchain                       *)
(***************************************************************************)
RECURSIVE Unlinked(_, _)
\* SELECT id, question .. WHERE "blockchainMarketId" IS NULL AND
\* status = 'active' ORDER BY "createdAt" ASC: the rows as they are read
Unlinked(m, order) ==
    IF order = <<>> THEN <<>>
    ELSE LET r == Head(order)
             rest == Unlinked(m, Tail(order))
         IN  IF m[r].present /\ m[r].chainId = NULL /\ m[r].status = "active"
             THEN <<[id |-> r, question |-> m[r].question]>> \o rest
             ELSE rest

\* the next iteration of: for market in markets
SmbNext(sy) ==
    IF Len(sy.todo) <= 1 THEN Finish(sy, "Ok")
    ELSE [sy EXCEPT !.pc = "smb_scan", !.todo = Tail(@), !.k = 0, !.bq = <<>>,
                    !.newId = NULL]

\* the SELECT of the markets to sync
SmbStart(p) ==
    /\ CanStart(p)
    /\ \E dbOk \in BOOLEAN :
         LET sy == Begin(syncer[p], "smb")
             rows == Unlinked(markets, RowOrder)
         IN  syncer' = Canon([syncer EXCEPT ![p] =
                IF ~dbOk THEN Finish(Failed(sy), "Err")
                ELSE IF rows = <<>> THEN Finish(sy, "Ok")
                ELSE [sy EXCEPT !.pc = "smb_total", !.todo = rows]])
    /\ UNCHANGED <<markets, chain, sfbLog>>
    /\ UNCHANGED notRecon

\* contract.next_market_id().call(), read once before the loop
SmbTotal(p) ==
    /\ syncer[p].pc = "smb_total"
    /\ \E ok \in BOOLEAN :
         syncer' = Canon([syncer EXCEPT ![p] =
            IF ok THEN [@ EXCEPT !.pc = "smb_scan", !.total = Len(chain)]
            ELSE Finish(Failed(@), "Err")])
    /\ UNCHANGED <<markets, chain, sfbLog>>
    /\ UNCHANGED notRecon

\* blockchain_question == db_question || db_question.starts_with(blockchain_question)
IsMatch(blockchain_question, db_question) ==
    \/ Trim(blockchain_question) = Trim(db_question)
    \/ StartsWith(Trim(db_question), Trim(blockchain_question))

\* the ids of 0..total whose market the loop reads and finds matching
MatchingIds(ch, total, readable, question) ==
    {id \in readable : id < total /\ IsMatch(ch[id + 1], question)}

Least(S) == CHOOSE x \in S : \A y \in S : x <= y

\* for blockchain_id in 0..total_blockchain_markets: the reads of the loop up
\* to the first match; a read that fails is passed over (if let Ok(..)).
\* The markets of the contract never change once created, so the reads are
\* taken together with the statement that follows them: the conditional
\* UPDATE with the id of the matching chain market (found_existing = true;
\* break), or contract.next_market_id().call() before a creation.
SmbScan(p) ==
    /\ syncer[p].pc = "smb_scan"
    /\ \E readable \in SUBSET (0..(syncer[p].total - 1)), ok \in BOOLEAN :
         LET sy == IF readable = 0..(syncer[p].total - 1) THEN syncer[p]
                   ELSE Failed(syncer[p])
             ids == MatchingIds(chain, sy.total, readable, Head(sy.todo).question)
             u == AssignIfNull(markets, Head(sy.todo).id, Least(ids))
         IN  IF ids = {}
             THEN /\ markets' = markets
                  /\ syncer' = Canon([syncer EXCEPT ![p] =
                        IF ok THEN [sy EXCEPT !.pc = "smb_check_id", !.newId = Len(chain)]
                        ELSE Finish(Failed(sy), "Err")])
             ELSE /\ markets' = IF ok THEN u.m ELSE markets
                  /\ syncer' = Canon([syncer EXCEPT ![p] =
                        LET sent == Issued(sy, Head(sy.todo).id, Least(ids))
                        IN  IF ~ok THEN SmbNext(Failed(sent))
                            ELSE IF u.res = "hit" THEN SmbNext(Synced(sent))
                            ELSE SmbNext(sent)])
    /\ UNCHANGED <<chain, sfbLog>>
    /\ UNCHANGED notRecon

\* SELECT id, question .. WHERE "blockchainMarketId" = $1 with the next id;
\* a row that holds it makes the loop skip the creation
SmbCheckId(p) ==
    /\ syncer[p].pc = "smb_check_id"
    /\ \E dbOk \in BOOLEAN :
         syncer' = Canon([syncer EXCEPT ![p] =
            IF ~dbOk THEN Finish(Failed(@), "Err")
            ELSE IF LinkedRows(markets, @.newId) # {} THEN SmbNext(@)
            ELSE [@ EXCEPT !.pc = "smb_send"]])
    /\ UNCHANGED <<markets, chain, sfbLog>>
    /\ UNCHANGED notRecon

\* contract.create_market(question, end_time, token).send()
SmbSend(p) ==
    /\ syncer[p].pc = "smb_send"
    /\ \E ok \in BOOLEAN :
         /\ ok => Len(chain) < MaxChain
         /\ syncer' = Canon([syncer EXCEPT ![p] =
               IF ok THEN [Sent(@) EXCEPT !.pc = "smb_wait"]
               ELSE SmbNext(Failed(@))])
    /\ UNCHANGED <<markets, chain, sfbLog>>
    /\ UNCHANGED notRecon

\* match pending_tx.await and the decoding of MarketCreated from the receipt.
\* The transaction that was sent is mined at the latest here; without a
\* receipt the pass does not learn whether it was.  With the event,
\* contract.markets(market_id).call() on the created market, which does not
\* change: a failure of it makes the pass return Ok(synced_count).
SmbWait(p) ==
    /\ syncer[p].pc = "smb_wait"
    /\ \E outcome \in {"event", "no_event", "no_receipt", "error"}, mined \in BOOLEAN,
          ok \in BOOLEAN :
         LET sy == IF outcome \in {"event", "no_event"}
                   THEN CreationConfirmed(syncer[p], Head(syncer[p].todo).id)
                   ELSE syncer[p]
             bq == ChainStore(Head(sy.todo).question)
         IN  /\ outcome \in {"event", "no_event"} => mined
             /\ mined => Len(chain) < MaxChain
             /\ chain' = IF mined THEN Append(chain, bq) ELSE chain
             /\ syncer' = Canon([syncer EXCEPT ![p] =
                   IF outcome # "event" THEN SmbNext(Failed(sy))
                   ELSE IF ~ok THEN Finish(Failed(sy), "Ok")
                   ELSE IF Trim(bq) # Trim(Head(sy.todo).question)
                        THEN [sy EXCEPT !.pc = "smb_fix_question", !.bq = bq,
                                        !.newId = Len(chain)]
                        ELSE [sy EXCEPT !.pc = "smb_link", !.newId = Len(chain)]])
    /\ UNCHANGED <<markets, sfbLog>>
    /\ UNCHANGED notRecon

\* UPDATE markets_extended SET question = $1 WHERE id = $2; an error is logged
SmbFixQuestion(p) ==
    /\ syncer[p].pc = "smb_fix_question"
    /\ \E dbOk \in BOOLEAN :
         LET sy == syncer[p]
             id == Head(sy.todo).id
         IN  /\ markets' = IF dbOk THEN [markets EXCEPT ![id].question = sy.bq] ELSE markets
             /\ syncer' = Canon([syncer EXCEPT ![p] =
                   IF dbOk THEN [Wrote(sy) EXCEPT !.pc = "smb_link"]
                   ELSE [Failed(sy) EXCEPT !.pc = "smb_link"]])
    /\ UNCHANGED <<chain, sfbLog>>
    /\ UNCHANGED notRecon

\* the conditional UPDATE that stores the id of the created market
LinkCreatedForgotten(m, id, k) == [res |-> "miss", m |-> m]

LinkCreated(m, id, k) == AssignIfNull(m, id, k)

SmbLink(p) ==
    /\ syncer[p].pc = "smb_link"
    /\ \E dbOk \in BOOLEAN :
         LET sy == syncer[p]
             u == LinkCreated(markets, Head(sy.todo).id, sy.newId)
         IN  /\ markets' = IF dbOk THEN u.m ELSE markets
             /\ syncer' = Canon([syncer EXCEPT ![p] =
                   IF ~dbOk THEN SmbNext(Failed(sy))
                   ELSE IF u.res = "hit"
                        THEN SmbNext(Synced(sy))
                        ELSE SmbNext(sy)])
    /\ UNCHANGED <<chain, sfbLog>>
    /\ UNCHANGED notRecon

SmbStep(p) ==
    \/ SmbTotal(p)
    \/ SmbScan(p)
    \/ SmbCheckId(p)
    \/ SmbSend(p)
    \/ SmbWait(p)
    \/ SmbFixQuestion(p)
    \/ SmbLink(p)

(***************************************************************************)
(* BlockchainSyncService::verify_blockchain_sync                           *)
(***************************************************************************)
\* the next iteration of: for market_id in 0..total_markets
VbsNext(sy) ==
    IF sy.k + 1 >= sy.total THEN Finish(sy, "Ok")
    ELSE [sy EXCEPT !.pc = "vbs_read", !.k = @ + 1, !.bq = <<>>, !.mid = NoRow]

\* contract.next_market_id().call()
VbsStart(p) ==
    /\ CanStart(p)
    /\ \E ok \in BOOLEAN :
         LET sy == Begin(syncer[p], "vbs")
         IN  syncer' = Canon([syncer EXCEPT ![p] =
                IF ~ok THEN Finish(Failed(sy), "Err")
                ELSE IF Len(chain) = 0 THEN Finish(sy, "Ok")
                ELSE [sy EXCEPT !.pc = "vbs_read", !.total = Len(chain)]])
    /\ UNCHANGED <<markets, chain, sfbLog>>
    /\ UNCHANGED notRecon

\* contract.markets(market_id).call(), then
\* SELECT id FROM markets_extended WHERE "blockchainMarketId" = $1
VbsRead(p) ==
    /\ syncer[p].pc = "vbs_read"
    /\ \E chainOk \in BOOLEAN, dbOk \in BOOLEAN :
         LET sy == syncer[p]
         IN  syncer' = Canon([syncer EXCEPT ![p] =
                IF ~chainOk THEN VbsNext(Failed(sy))
                ELSE IF ~dbOk THEN Finish(Failed(sy), "Err")
                ELSE IF LinkedRows(markets, sy.k) # {} THEN VbsNext(sy)
                ELSE [sy EXCEPT !.pc = "vbs_by_question", !.bq = chain[sy.k + 1]]])
    /\ UNCHANGED <<markets, chain, sfbLog>>
    /\ UNCHANGED notRecon

\* SELECT id, "blockchainMarketId" .. WHERE question = $1 (fetch_optional)
VbsByQuestion(p) ==
    /\ syncer[p].pc = "vbs_by_question"
    /\ \E dbOk \in BOOLEAN :
         LET sy == syncer[p]
         IN  IF ~dbOk THEN syncer' = Canon([syncer EXCEPT ![p] = Finish(Failed(sy), "Err")])
             ELSE \E r \in FetchOptional({x \in Rows : markets[x].present
                                                      /\ markets[x].question = sy.bq}) :
                    syncer' = Canon([syncer EXCEPT ![p] =
                       IF r = NoRow \/ markets[r].chainId # NULL THEN VbsNext(sy)
                       ELSE [sy EXCEPT !.pc = "vbs_update", !.mid = r]])
    /\ UNCHANGED <<markets, chain, sfbLog>>
    /\ UNCHANGED notRecon

\* UPDATE .. SET "blockchainMarketId" = $1 WHERE id = $2, with map_err(..)?
VbsUpdate(p) ==
    /\ syncer[p].pc = "vbs_update"
    /\ \E dbOk \in BOOLEAN :
         LET sy == syncer[p]
             u == AssignAlways(markets, sy.mid, sy.k)
         IN  /\ markets' = IF dbOk THEN u.m ELSE markets
             /\ syncer' = Canon([syncer EXCEPT ![p] =
                   IF ~dbOk THEN Finish(Failed(sy), "Err")
                   ELSE IF u.res = "dup" THEN Finish(sy, "Err")
                   ELSE VbsNext(Wrote(sy))])
    /\ UNCHANGED <<chain, sfbLog>>
    /\ UNCHANGED notRecon

VbsStep(p) ==
    \/ VbsRead(p)
    \/ VbsByQuestion(p)
    \/ VbsUpdate(p)

(***************************************************************************)
(* MarketService::upsert_market_from_indexer                               *)
(***************************************************************************)
\* a MarketCreated event of the indexer: the id and the question of a market
\* of the contract.  The SELECT of the unlinked row with that question.
UpsStart(p) ==
    /\ CanStart(p)
    /\ \E id \in 0..(Len(chain) - 1), dbOk \in BOOLEAN :
         LET sy == [Begin(syncer[p], "ups") EXCEPT !.k = id, !.bq = chain[id + 1]]
         IN  IF ~dbOk THEN syncer' = Canon([syncer EXCEPT ![p] = Finish(Failed(sy), "Err")])
             ELSE \E r \in FetchOptional(ExactUnlinked(markets, sy.bq)) :
                    syncer' = Canon([syncer EXCEPT ![p] =
                       IF r = NoRow THEN [sy EXCEPT !.pc = "ups_insert"]
                       ELSE [sy EXCEPT !.pc = "ups_update", !.mid = r]])
    /\ UNCHANGED <<markets, chain, sfbLog>>
    /\ UNCHANGED notRecon

\* UPDATE .. SET "blockchainMarketId" = $1, "marketId" = $2 WHERE id = $3
UpsUpdate(p) ==
    /\ syncer[p].pc = "ups_update"
    /\ \E dbOk \in BOOLEAN :
         LET sy == syncer[p]
             u == AssignAlways(markets, sy.mid, sy.k)
         IN  /\ markets' = IF ~dbOk \/ u.res = "dup" THEN markets
                            ELSE [u.m EXCEPT ![sy.mid].marketId = ChainIdText(sy.k)]
             /\ syncer' = Canon([syncer EXCEPT ![p] =
                   IF ~dbOk THEN Finish(Failed(sy), "Err")
                   ELSE IF u.res = "dup" THEN Finish(sy, "Err")
                   ELSE Finish(Wrote(sy), "Ok")])
    /\ UNCHANGED <<chain, sfbLog>>
    /\ UNCHANGED notRecon

FreeRows(m) == {r \in Rows : ~m[r].present}

\* INSERT INTO markets_extended (..) ON CONFLICT ("blockchainMarketId")
\* DO UPDATE SET question = EXCLUDED.question.  The table of the model holds
\* the rows of Rows at most: the INSERT of one more row fails.
UpsInsert(p) ==
    /\ syncer[p].pc = "ups_insert"
    /\ \E dbOk \in BOOLEAN :
         LET sy == syncer[p]
             holders == LinkedRows(markets, sy.k)
             fits == holders # {} \/ FreeRows(markets) # {}
         IN  IF ~dbOk \/ ~fits
             THEN /\ markets' = markets
                  /\ syncer' = Canon([syncer EXCEPT ![p] = Finish(Failed(sy), "Err")])
             ELSE /\ markets' =
                        IF holders # {}
                        THEN [r \in Rows |-> IF r \in holders
                                             THEN [markets[r] EXCEPT !.question = sy.bq]
                                             ELSE markets[r]]
                        ELSE LET new == CHOOSE r \in FreeRows(markets) : TRUE
                             IN  [markets EXCEPT ![new] = [present |-> TRUE,
                                     question |-> sy.bq, chainId |-> sy.k,
                                     status |-> "active", ticker |-> "",
                                     marketId |-> ChainIdText(sy.k),
                                     result |-> NoResult, createdAt |-> now]]
                  /\ syncer' = Canon([syncer EXCEPT ![p] =
                                   Finish(Wrote(sy), "Ok")])
    /\ UNCHANGED <<chain, sfbLog>>
    /\ UNCHANGED notRecon

UpsStep(p) ==
    \/ UpsUpdate(p)
    \/ UpsInsert(p)

(***************************************************************************)
(* The unit converter on one amount string.                                *)
(***************************************************************************)
IdleConv == [pc |-> "idle", input |-> BadText, parsed |-> Err("none"), result |-> Err("none")]

WholeParts == {<<0, 0>>, <<0, 1>>, <<0, 9999>>, <<0, 10000>>, <<0, 10001>>,
               <<18446744, 73709>>, <<18446744, 73710>>}

FracParts == {0, 1, 9, 10, 5000000, 5516150, 5516160, 9999999}

AmountInputs ==
    {Num(neg, w, f) : neg \in BOOLEAN, w \in WholeParts, f \in FracParts}
        \cup {BadText, NanText, InfText(FALSE), InfText(TRUE)}

ConvParse ==
    /\ conv.pc = "start"
    /\ conv' = [conv EXCEPT !.pc = "parsed", !.parsed = parse_usdc_amount(conv.input)]
    /\ UNCHANGED <<markets, pool, bets, chain, allowance, bettor, recalc, placed, syncer, sfbLog, observe, now, reads, jobs>>

\* parse_usdc_amount(&params.amount)?; validate_bet_amount(amount_raw)?
ConvValidate ==
    /\ conv.pc = "parsed"
    /\ conv' = [conv EXCEPT !.pc = "done",
                   !.result = IF conv.parsed.ok THEN validate_bet_amount(conv.parsed.val)
                              ELSE conv.parsed]
    /\ UNCHANGED <<markets, pool, bets, chain, allowance, bettor, recalc, placed, syncer, sfbLog, observe, now, reads, jobs>>

(***************************************************************************)
(* Initial states.                                                         *)
(***************************************************************************)
Q_a == <<"a">>

Q_ab == <<"a", "b">>

Q_b == <<"b">>

\* "marketId" of the market that the content feed lists under a ticker
FeedMarketId(ticker) ==
    CASE ticker = "T1" -> "M1"
      [] ticker = "T2" -> "M2"
      [] ticker = "T3" -> "M3"
      [] ticker = "T4" -> "M4"
      [] OTHER -> ""

Row(question, chainId, status, ticker) ==
    [present |-> TRUE, question |-> question, chainId |-> chainId,
     status |-> status, ticker |-> ticker, marketId |-> FeedMarketId(ticker),
     result |-> IF status = "resolved" THEN "true" ELSE NoResult, createdAt |-> 0]

\* a linked active market, an unlinked active market, a linked resolved market
BetMarkets ==
    [r \in Rows |->
        CASE r = "A" -> Row(Q_a, 0, "active", "T1")
          [] r = "B" -> Row(Q_ab, NULL, "active", "T2")
          [] OTHER   -> Row(Q_b, 1, "resolved", "T3")]

InitBetting ==
    /\ markets = BetMarkets
    /\ pool = [r \in Rows |-> ZeroPool]
    /\ bets = <<>>
    /\ chain = <<Q_a, Q_b>>
    /\ allowance \in {ZERO_RAW, U64_MAX}
    /\ bettor = [p \in Bettors |-> IdleBettor]
    /\ recalc = IdleRecalc
    /\ placed = [r \in Rows |-> ZeroPool]
    /\ conv = IdleConv
    /\ syncer = [p \in Syncers |-> IdleSyncer]
    /\ sfbLog = {}
    /\ observe = FALSE
    /\ jobs = IdleJobs
    /\ now = 0
    /\ reads = IdleReads

OneUsdc == Num(FALSE, <<0, 1>>, 0)

\* concurrent bettors on market A, with recalculate_market_stats
BetRefs == {"0"}

BetAmounts == {OneUsdc}

NextBet ==
    \/ \E p \in Bettors : PlaceBetCall(p, BetRefs, BetAmounts)
    \/ \E p \in Bettors : PlaceBetStep(p)
    \/ RecalcSelect("A")
    \/ RecalcUpdate

SpecBet == InitBetting /\ [][NextBet]_vars

\* one caller, every kind of market reference and of amount
InputRefs == {"A", "B", "C", "T1", "T2", "0", "1", "2", "zz"}

InputAmounts == {OneUsdc, Num(FALSE, <<0, 2000>>, 9), Num(FALSE, <<0, 10000>>, 10),
                 Num(FALSE, <<0, 0>>, 1), Num(FALSE, <<0, 0>>, 9999999),
                 Num(TRUE, <<0, 1>>, 0), BadText}

NextInput ==
    \/ PlaceBetCall(1, InputRefs, InputAmounts)
    \/ PlaceBetStep(1)

SpecInput == InitBetting /\ [][NextInput]_vars

\* Bet rows from before odds were computed, their odds the column's 1.0,
\* and the pools their amounts make
LegacyIds == {201, 202}

LegacyBets ==
    <<[id |-> 201, market |-> "A", position |-> TRUE, amount |-> 100 * USDC_UNIT,
       odds |-> OddsOne, status |-> "active", createdAt |-> 0],
      [id |-> 202, market |-> "A", position |-> FALSE, amount |-> 300 * USDC_UNIT,
       odds |-> OddsOne, status |-> "active", createdAt |-> 0]>>

LegacyPool ==
    [yes |-> 100 * USDC_UNIT, no |-> 300 * USDC_UNIT, total |-> 400 * USDC_UNIT,
     countYes |-> 1, countNo |-> 1]

\* market A is empty or holds the legacy bets
InitOdds ==
    /\ markets = BetMarkets
    /\ \E legacy \in BOOLEAN :
         /\ pool = [r \in Rows |-> IF legacy /\ r = "A" THEN LegacyPool ELSE ZeroPool]
         /\ bets = IF legacy THEN LegacyBets ELSE <<>>
         /\ placed = [r \in Rows |-> IF legacy /\ r = "A" THEN LegacyPool ELSE ZeroPool]
    /\ chain = <<Q_a, Q_b>>
    /\ allowance \in {ZERO_RAW, U64_MAX}
    /\ bettor = [p \in Bettors |-> IdleBettor]
    /\ recalc = IdleRecalc
    /\ conv = IdleConv
    /\ syncer = [p \in Syncers |-> IdleSyncer]
    /\ sfbLog = {}
    /\ observe = FALSE
    /\ jobs = IdleJobs
    /\ now = 0
    /\ reads = IdleReads

OddsAmounts == {Num(FALSE, <<0, 10>>, 0), Num(FALSE, <<0, 50>>, 0)}

\* no place_bet call is under way
NoCallUnderWay == \A q \in Bettors : bettor[q].pc \in {"idle", "returned"}

\* bets placed one after the other
NextOdds ==
    \/ \E p \in Bettors : NoCallUnderWay /\ PlaceBetCall(p, BetRefs, OddsAmounts)
    \/ \E p \in Bettors : PlaceBetStep(p)

SpecOdds == InitOdds /\ [][NextOdds]_vars

\* a background job may be started: none is under way and fewer than MaxRuns
\* were run
MayRunJob ==
    /\ jobs.ingest.pc \in {"idle", "returned"}
    /\ jobs.backfill.pc \in {"idle", "returned"}
    /\ jobs.ingest.runs + jobs.backfill.runs < MaxRuns

\* two bets placed one after the other and, while they are placed, the
\* indexer-bet ingestion or the odds backfill
NextJobs ==
    \/ \E p \in {1, 2} : NoCallUnderWay /\ PlaceBetCall(p, BetRefs, OddsAmounts)
    \/ \E p \in {1, 2} : PlaceBetStep(p)
    \/ MayRunJob /\ IngestStart
    \/ IngestMarket
    \/ IngestInsert
    \/ MayRunJob /\ BackfillSelect
    \/ BackfillUpdate

SpecJobs == InitOdds /\ [][NextJobs]_vars

\* attempts made one after the other, each a call of place_bet, with what
\* each read and how its approval ended recorded
InitApprove ==
    /\ markets = BetMarkets
    /\ pool = [r \in Rows |-> ZeroPool]
    /\ bets = <<>>
    /\ chain = <<Q_a, Q_b>>
    /\ allowance \in {ZERO_RAW, U64_MAX}
    /\ bettor = [p \in Bettors |-> IdleBettor]
    /\ recalc = IdleRecalc
    /\ placed = [r \in Rows |-> ZeroPool]
    /\ conv = IdleConv
    /\ syncer = [p \in Syncers |-> IdleSyncer]
    /\ sfbLog = {}
    /\ observe = TRUE
    /\ jobs = IdleJobs
    /\ now = 0
    /\ reads = IdleReads

NextApprove ==
    \/ \E p \in Bettors : NoCallUnderWay /\ PlaceBetCall(p, BetRefs, BetAmounts)
    \/ \E p \in Bettors : PlaceBetStep(p)

SpecApprove == InitApprove /\ [][NextApprove]_vars

InitAmount ==
    /\ markets = BetMarkets
    /\ pool = [r \in Rows |-> ZeroPool]
    /\ bets = <<>>
    /\ chain = <<>>
    /\ allowance = ZERO_RAW
    /\ bettor = [p \in Bettors |-> IdleBettor]
    /\ recalc = IdleRecalc
    /\ placed = [r \in Rows |-> ZeroPool]
    /\ conv \in {[IdleConv EXCEPT !.pc = "start", !.input = a] : a \in AmountInputs}
    /\ syncer = [p \in Syncers |-> IdleSyncer]
    /\ sfbLog = {}
    /\ observe = FALSE
    /\ jobs = IdleJobs
    /\ now = 0
    /\ reads = IdleReads

NextAmount == ConvParse \/ ConvValidate

SpecAmount == InitAmount /\ [][NextAmount]_vars

\* two unlinked active markets, the second with the question of the first
\* or with a longer one, and a contract that holds up to two markets
ReconMarkets(qB) ==
    [r \in Rows |->
        CASE r = "A" -> Row(Q_a, NULL, "active", "T1")
          [] r = "B" -> Row(qB, NULL, "active", "T2")
          [] OTHER   -> [present |-> FALSE, question |-> <<>>, chainId |-> NULL,
                         status |-> "active", ticker |-> "", marketId |-> "",
                         result |-> NoResult, createdAt |-> 0]]

ReconChains == {<<>>, <<Q_a>>, <<Q_a, Q_a>>}

InitReconciler(obs) ==
    /\ markets \in {ReconMarkets(qB) : qB \in {Q_a, Q_ab}}
    /\ chain \in ReconChains
    /\ pool = [r \in Rows |-> ZeroPool]
    /\ bets = <<>>
    /\ allowance = ZERO_RAW
    /\ bettor = [p \in Bettors |-> IdleBettor]
    /\ recalc = IdleRecalc
    /\ placed = [r \in Rows |-> ZeroPool]
    /\ conv = IdleConv
    /\ syncer = [p \in Syncers |-> IdleSyncer]
    /\ sfbLog = {}
    /\ observe = obs
    /\ jobs = IdleJobs
    /\ now = 0
    /\ reads = IdleReads

InitRecon == InitReconciler(FALSE)

InitObserved == InitReconciler(TRUE)

\* questions as the market source delivers them, some with blanks around
\* the text
MatchQuestions == {Q_a, Q_ab, <<" ", "a">>, <<"a", " ">>}

InitMatch ==
    /\ markets \in {[ReconMarkets(qB) EXCEPT !["A"].question = qA] :
                       qA \in {Q_a, Q_b}, qB \in MatchQuestions}
    /\ chain \in ReconChains
    /\ pool = [r \in Rows |-> ZeroPool]
    /\ bets = <<>>
    /\ allowance = ZERO_RAW
    /\ bettor = [p \in Bettors |-> IdleBettor]
    /\ recalc = IdleRecalc
    /\ placed = [r \in Rows |-> ZeroPool]
    /\ conv = IdleConv
    /\ syncer = [p \in Syncers |-> IdleSyncer]
    /\ sfbLog = {}
    /\ observe = TRUE
    /\ jobs = IdleJobs
    /\ now = 0
    /\ reads = IdleReads

\* the process has not run a pass yet
Fresh(p) == syncer[p].pc = "idle"

\* the four reconciliation operations, interleaved, each process running one
\* pass
Next ==
    \/ \E p \in Syncers : Fresh(p) /\ SfbStart(p)
    \/ \E p \in Syncers : SfbStep(p)
    \/ \E p \in Syncers : Fresh(p) /\ SmbStart(p)
    \/ \E p \in Syncers : SmbStep(p)
    \/ \E p \in Syncers : Fresh(p) /\ VbsStart(p)
    \/ \E p \in Syncers : VbsStep(p)
    \/ \E p \in Syncers : Fresh(p) /\ UpsStart(p)
    \/ \E p \in Syncers : UpsStep(p)

Spec == InitRecon /\ [][Next]_vars

\* two processes that run one sync_from_blockchain pass each
NextSfb ==
    \/ \E p \in {1, 2} : Fresh(p) /\ SfbStart(p)
    \/ \E p \in {1, 2} : SfbStep(p)

SpecSfb == InitObserved /\ [][NextSfb]_vars

\* one pass of either kind, alone
NextMatch ==
    \/ Fresh(1) /\ SfbStart(1)
    \/ SfbStep(1)
    \/ Fresh(1) /\ SmbStart(1)
    \/ SmbStep(1)

SpecMatch == InitMatch /\ [][NextMatch]_vars

\* a question of blanks only
Q_blank == <<" ">>

\* a contract one of whose markets has a question that is empty, or is
\* empty once trimmed
BlankChains ==
    {<<Q_blank>>, <<<<>>>>, <<Q_blank, Q_a>>, <<Q_a, Q_blank>>, <<Q_a, <<>>>>}

InitBlank ==
    /\ markets \in {[ReconMarkets(qB) EXCEPT !["A"].question = qA] :
                       qA \in {Q_a, Q_b}, qB \in MatchQuestions}
    /\ chain \in BlankChains
    /\ pool = [r \in Rows |-> ZeroPool]
    /\ bets = <<>>
    /\ allowance = ZERO_RAW
    /\ bettor = [p \in Bettors |-> IdleBettor]
    /\ recalc = IdleRecalc
    /\ placed = [r \in Rows |-> ZeroPool]
    /\ conv = IdleConv
    /\ syncer = [p \in Syncers |-> IdleSyncer]
    /\ sfbLog = {}
    /\ observe = TRUE
    /\ jobs = IdleJobs
    /\ now = 0
    /\ reads = IdleReads

SpecBlank == InitBlank /\ [][NextMatch]_vars

(***************************************************************************)
(* MarketService::resolve_market and MarketSeeder::create_or_update_market *)
(***************************************************************************)
\* UPDATE markets_extended SET status = 'resolved', result = $2
\* WHERE "marketId" = $1
resolve_market(m, market_id, outcome) ==
    [r \in Rows |->
        IF m[r].present /\ m[r].marketId = market_id
        THEN [m[r] EXCEPT !.status = "resolved", !.result = outcome]
        ELSE m[r]]

ResolveMarket(market_ids) ==
    /\ \E market_id \in market_ids, outcome \in {"true", "false"}, dbOk \in BOOLEAN :
         markets' = IF dbOk THEN resolve_market(markets, market_id, outcome) ELSE markets
    /\ UNCHANGED <<pool, bets, chain, allowance, bettor, recalc, placed, conv, syncer, sfbLog, observe, now, reads, jobs>>

\* the markets that the content feed may return: the market of row C, still
\* listed as active or resolved the other way, the market of row A, and a
\* market that the database does not hold
FeedMarkets ==
    {[adj_ticker |-> "T3", market_id |-> "M3", question |-> Q_b, status |-> "active",
      result |-> NoResult],
     [adj_ticker |-> "T3", market_id |-> "M3", question |-> Q_b, status |-> "resolved",
      result |-> "false"],
     [adj_ticker |-> "T1", market_id |-> "M1", question |-> Q_a, status |-> "active",
      result |-> NoResult],
     [adj_ticker |-> "T4", market_id |-> "M4", question |-> <<"b", "a">>,
      status |-> "active", result |-> NoResult]}

\* SELECT id FROM markets_extended WHERE "adjTicker" = $1 OR question = $2
SeedSelect ==
    /\ jobs.seed.pc \in {"idle", "returned"}
    /\ \E api_market \in FeedMarkets, dbOk \in BOOLEAN :
         IF ~dbOk
         THEN jobs' = [jobs EXCEPT !.seed = [IdleSeed EXCEPT !.pc = "returned",
                                                            !.result = "Err"]]
         ELSE \E existing \in FetchOptional({r \in Rows :
                        /\ markets[r].present
                        /\ \/ markets[r].ticker = api_market.adj_ticker
                           \/ markets[r].question = api_market.question}) :
                jobs' = [jobs EXCEPT !.seed = [pc |-> "seed_write", api |-> api_market,
                                               existing |-> existing, result |-> "none"]]
    /\ UNCHANGED <<markets, pool, bets, chain, allowance, bettor, recalc, placed, conv, syncer, sfbLog, observe, now, reads>>

\* UPDATE markets_extended SET question = $1, .., status = $4, .., result = $10
\* WHERE id = $13
SeedUpdate(m, id, api) ==
    [m EXCEPT ![id].question = api.question, ![id].status = api.status,
              ![id].result = api.result]

\* the UPDATE of the existing row, Ok(false), or the INSERT of a new row with
\* all pools zero, Ok(true); the table of the model holds the rows of Rows at
\* most: the INSERT of one more row fails
SeedWrite ==
    /\ jobs.seed.pc = "seed_write"
    /\ \E dbOk \in BOOLEAN :
         LET sd == jobs.seed
             fits == sd.existing # NoRow \/ FreeRows(markets) # {}
             done(res) == [IdleSeed EXCEPT !.pc = "returned", !.result = res]
         IN  IF ~dbOk \/ ~fits
             THEN /\ markets' = markets
                  /\ jobs' = [jobs EXCEPT !.seed = done("Err")]
             ELSE /\ markets' =
                        IF sd.existing # NoRow THEN SeedUpdate(markets, sd.existing, sd.api)
                        ELSE LET new == CHOOSE r \in FreeRows(markets) : TRUE
                             IN  [markets EXCEPT ![new] =
                                     [present |-> TRUE, question |-> sd.api.question,
                                      chainId |-> NULL, status |-> sd.api.status,
                                      ticker |-> sd.api.adj_ticker,
                                      marketId |-> sd.api.market_id,
                                      result |-> sd.api.result, createdAt |-> now]]
                  /\ jobs' = [jobs EXCEPT !.seed = done("Ok")]
    /\ UNCHANGED <<pool, bets, chain, allowance, bettor, recalc, placed, conv, syncer, sfbLog, observe, now, reads>>

\* the market ids that resolve_market is called with
ResolveIds == {"M1", "M3", "0"}

\* rows A and B active and row C resolved, or rows A and B alone; markets are
\* resolved, the seeder writes the markets of the feed, and one
\* sync_from_blockchain pass and one upsert_market_from_indexer run
InitResolve ==
    /\ markets \in {BetMarkets,
                     [BetMarkets EXCEPT !["C"] = ReconMarkets(Q_ab)["C"]]}
    /\ pool = [r \in Rows |-> ZeroPool]
    /\ bets = <<>>
    /\ chain = <<Q_a, Q_b>>
    /\ allowance = ZERO_RAW
    /\ bettor = [p \in Bettors |-> IdleBettor]
    /\ recalc = IdleRecalc
    /\ placed = [r \in Rows |-> ZeroPool]
    /\ conv = IdleConv
    /\ syncer = [p \in Syncers |-> IdleSyncer]
    /\ sfbLog = {}
    /\ observe = FALSE
    /\ jobs = IdleJobs
    /\ now = 0
    /\ reads = IdleReads

NextResolve ==
    \/ ResolveMarket(ResolveIds)
    \/ SeedSelect
    \/ SeedWrite
    \/ Fresh(1) /\ SfbStart(1)
    \/ SfbStep(1)
    \/ Fresh(1) /\ UpsStart(1)
    \/ UpsStep(1)

SpecResolve == InitResolve /\ [][NextResolve]_vars

\* place_bet calls on market A while resolve_market is called for it
NextBetResolve ==
    \/ \E p \in Bettors : PlaceBetCall(p, BetRefs, BetAmounts)
    \/ \E p \in Bettors : PlaceBetStep(p)
    \/ ResolveMarket({"M1"})

SpecBetResolve == InitBetting /\ [][NextBetResolve]_vars

\* the tables that the chart requests read: no bet; two bets on market A a
\* minute apart and one on market C; two bets on market A in the same minute
ChartBet(id, market, position, usdc, createdAt) ==
    [id |-> id, market |-> market, position |-> position, amount |-> usdc * USDC_UNIT,
     odds |-> OddsOne, status |-> "active", createdAt |-> createdAt]

\* the midnight of the day of the requests, ten days after the markets were
\* created
ChartDay == 86400 * 10

ChartTables ==
    {<<>>,
     <<ChartBet(101, "A", TRUE, 10, ChartDay + 70), ChartBet(102, "C", TRUE, 5, ChartDay + 100),
       ChartBet(103, "A", FALSE, 30, ChartDay + 130)>>,
     <<ChartBet(101, "A", FALSE, 10, ChartDay + 70),
       ChartBet(102, "A", TRUE, 10, ChartDay + 80)>>}

\* the time of the requests
ChartNow == ChartDay + 200

ChartMarketIds == {"A", "T1", "B", "zz"}

ChartIntervals == {"1m", "5m", "15m", "1h", "4h", "1d", "2h", ""}

\* from and to of the requests
ChartRanges ==
    {<<None, None>>, <<None, Some(ChartDay + 150)>>, <<Some(ChartDay + 100), None>>,
     <<Some(ChartDay), Some(ChartDay + 150)>>, <<Some(ChartDay + 90), Some(ChartDay + 30)>>,
     <<Some(-30), Some(150)>>, <<Some(I64_MAX - 10), Some(I64_MAX)>>}

InitChart ==
    /\ markets = BetMarkets
    /\ pool = [r \in Rows |-> ZeroPool]
    /\ bets \in ChartTables
    /\ chain = <<Q_a, Q_b>>
    /\ allowance = ZERO_RAW
    /\ bettor = [p \in Bettors |-> IdleBettor]
    /\ recalc = IdleRecalc
    /\ placed = [r \in Rows |-> ZeroPool]
    /\ conv = IdleConv
    /\ syncer = [p \in Syncers |-> IdleSyncer]
    /\ sfbLog = {}
    /\ observe = FALSE
    /\ jobs = IdleJobs
    /\ now = ChartNow
    /\ reads = IdleReads

NextChart ==
    \/ ChartCall(ChartMarketIds, ChartIntervals, ChartRanges)
    \/ ChartMarket
    \/ ChartBets

SpecChart == InitChart /\ [][NextChart]_vars

\* the scheduler, and beside it one sync_from_blockchain pass started through
\* the route POST /blockchain; row A is linked or has yet to be linked
InitSched ==
    /\ markets \in {BetMarkets, [BetMarkets EXCEPT !["A"].chainId = NULL]}
    /\ pool = [r \in Rows |-> ZeroPool]
    /\ bets = <<>>
    /\ chain = <<Q_a, Q_b>>
    /\ allowance = ZERO_RAW
    /\ bettor = [p \in Bettors |-> IdleBettor]
    /\ recalc = IdleRecalc
    /\ placed = [r \in Rows |-> ZeroPool]
    /\ conv = IdleConv
    /\ syncer = [p \in Syncers |-> IdleSyncer]
    /\ sfbLog = {}
    /\ observe = FALSE
    /\ jobs = IdleJobs
    /\ now = 0
    /\ reads = IdleReads

NextSched ==
    \/ SchedTick
    \/ SchedApys
    \/ SchedFullSync
    \/ IngestDue /\ IngestStart
    \/ IngestMarket
    \/ IngestInsert
    \/ SchedIngestDone
    \/ Fresh(1) /\ SfbStart(1)
    \/ SfbStep(1)

SpecSched == InitSched /\ [][NextSched]_vars

\* the spawned task is polled whenever it can go on, the timer fires, and the
\* statements and calls that a job awaits come back
SpecSchedFair ==
    /\ SpecSched
    /\ WF_vars(SchedTick) /\ WF_vars(SchedApys) /\ WF_vars(SchedFullSync)
    /\ WF_vars(IngestDue /\ IngestStart) /\ WF_vars(IngestMarket)
    /\ WF_vars(IngestInsert) /\ WF_vars(SchedIngestDone)

\* BatchLimit wagers on a market that the database does not hold, and after
\* them a wager on the market of chain id 0
StarvingEvents ==
    [i \in 1..(BatchLimit + 1) |->
        IF i <= BatchLimit THEN BetPlaced(200 + i, 7, FALSE, i, 0)
        ELSE BetPlaced(101, 0, TRUE, i, 0)]

InitIngest ==
    /\ markets = BetMarkets
    /\ pool = [r \in Rows |-> ZeroPool]
    /\ bets = <<>>
    /\ chain = <<Q_a, Q_b>>
    /\ allowance = ZERO_RAW
    /\ bettor = [p \in Bettors |-> IdleBettor]
    /\ recalc = IdleRecalc
    /\ placed = [r \in Rows |-> ZeroPool]
    /\ conv = IdleConv
    /\ syncer = [p \in Syncers |-> IdleSyncer]
    /\ sfbLog = {}
    /\ observe = FALSE
    /\ \E events \in {bet_placeds, StarvingEvents} : jobs = [IdleJobs EXCEPT !.events = events]
    /\ now = 0
    /\ reads = IdleReads

\* no statement of a job fails in the step
NoDatabaseError ==
    /\ jobs'.ingest.result # "Err"
    /\ jobs'.tick.apys # "Err"

\* interval.tick().await; sync_count += 1, past MaxTicks: sync_count only
\* numbers the log lines of the loop, and the ticks are counted anew
SchedTickAgain ==
    /\ jobs.tick.pc = "waiting"
    /\ jobs.tick.sync_count = MaxTicks
    /\ jobs' = [jobs EXCEPT !.tick.pc = "apys", !.tick.sync_count = 1, !.ingest.runs = 0]
    /\ UNCHANGED <<markets, pool, bets, chain, allowance, bettor, recalc, placed, conv, syncer, sfbLog, observe, now, reads>>

\* the ticks of the scheduler, without end, while the database and the
\* provider answer
NextIngest ==
    \/ SchedTick
    \/ SchedTickAgain
    \/ SchedApys /\ NoDatabaseError
    \/ SchedFullSync
    \/ IngestDue /\ IngestStart /\ NoDatabaseError
    \/ IngestMarket /\ NoDatabaseError
    \/ IngestInsert /\ NoDatabaseError
    \/ SchedIngestDone
    \/ ClockTick

SpecIngest == InitIngest /\ [][NextIngest]_vars

\* the spawned task is polled whenever it can go on, the timer fires, and the
\* statements that a job awaits come back
SpecIngestFair ==
    /\ SpecIngest
    /\ WF_vars(SchedTick) /\ WF_vars(SchedTickAgain)
    /\ WF_vars(SchedApys /\ NoDatabaseError)
    /\ WF_vars(SchedFullSync)
    /\ WF_vars(IngestDue /\ IngestStart /\ NoDatabaseError)
    /\ WF_vars(IngestMarket /\ NoDatabaseError)
    /\ WF_vars(IngestInsert /\ NoDatabaseError)
    /\ WF_vars(SchedIngestDone)

\* the table of the indexer is empty and the bettors hold an allowance
InitWager ==
    /\ markets = BetMarkets
    /\ pool = [r \in Rows |-> ZeroPool]
    /\ bets = <<>>
    /\ chain = <<Q_a, Q_b>>
    /\ allowance \in {ZERO_RAW, U64_MAX}
    /\ bettor = [p \in Bettors |-> IdleBettor]
    /\ recalc = IdleRecalc
    /\ placed = [r \in Rows |-> ZeroPool]
    /\ conv = IdleConv
    /\ syncer = [p \in Syncers |-> IdleSyncer]
    /\ sfbLog = {}
    /\ observe = FALSE
    /\ jobs = [IdleJobs EXCEPT !.events = <<>>]
    /\ now = 0
    /\ reads = IdleReads

\* bets placed one after the other, the indexer that records them, and the
\* ingestion
NextWager ==
    \/ \E p \in Bettors : NoCallUnderWay /\ PlaceBetCall(p, BetRefs, OddsAmounts)
    \/ \E p \in Bettors : PlaceBetStep(p)
    \/ IndexerRecords
    \/ MayRunJob /\ IngestStart
    \/ IngestMarket
    \/ IngestInsert

SpecWager == InitWager /\ [][NextWager]_vars

\* the scheduler, the clock and the reads of the status
NextStatus ==
    \/ SchedTick
    \/ SchedApys
    \/ SchedFullSync
    \/ IngestDue /\ IngestStart
    \/ IngestMarket
    \/ IngestInsert
    \/ SchedIngestDone
    \/ ClockTick
    \/ GetSyncStatus

SpecStatus == InitSched /\ [][NextStatus]_vars

\* one process that runs the same pass again when it has returned
Again(op) == syncer[1].op \in {"none", op}

NextTwice ==
    \/ Again("sfb") /\ SfbStart(1)
    \/ SfbStep(1)
    \/ Again("smb") /\ SmbStart(1)
    \/ SmbStep(1)

SpecTwice == InitObserved /\ [][NextTwice]_vars

\* a further pass of sync_markets_to_blockchain, past MaxPasses: the passes
\* are counted only to tell a first pass from a later one, and are counted
\* anew
SmbStartAgain(p) ==
    /\ syncer[p].pc = "returned"
    /\ syncer[p].runs = MaxPasses
    /\ \E dbOk \in BOOLEAN :
         LET sy == Begin([syncer[p] EXCEPT !.runs = 0], "smb")
             rows == Unlinked(markets, RowOrder)
         IN  syncer' = Canon([syncer EXCEPT ![p] =
                IF ~dbOk THEN Finish(Failed(sy), "Err")
                ELSE IF rows = <<>> THEN Finish(sy, "Ok")
                ELSE [sy EXCEPT !.pc = "smb_total", !.todo = rows]])
    /\ UNCHANGED <<markets, chain, sfbLog>>
    /\ UNCHANGED notRecon

\* no chain call and no database statement of the pass of process 1 fails in
\* the step
NoFailure == ~syncer'[1].failed

\* sync_markets_to_blockchain run again and again by one process, while the
\* chain and the database answer
NextConverge ==
    \/ SmbStart(1) /\ NoFailure
    \/ SmbStartAgain(1) /\ NoFailure
    \/ SmbStep(1) /\ NoFailure

\* row A with the question a and row B with that question, a longer one, or
\* one with blanks around it, both without a chain id, and a chain that
\* holds no market, one or two
InitConverge ==
    /\ markets \in {ReconMarkets(qB) : qB \in MatchQuestions}
    /\ chain \in ReconChains
    /\ pool = [r \in Rows |-> ZeroPool]
    /\ bets = <<>>
    /\ allowance = ZERO_RAW
    /\ bettor = [p \in Bettors |-> IdleBettor]
    /\ recalc = IdleRecalc
    /\ placed = [r \in Rows |-> ZeroPool]
    /\ conv = IdleConv
    /\ syncer = [p \in Syncers |-> IdleSyncer]
    /\ sfbLog = {}
    /\ observe = TRUE
    /\ jobs = IdleJobs
    /\ now = 0
    /\ reads = IdleReads

SpecConverge == InitConverge /\ [][NextConverge]_vars

\* the pass is started again whenever it has returned, and the calls and
\* statements that it awaits come back
SpecConvergeFair ==
    /\ SpecConverge
    /\ WF_vars(SmbStart(1) /\ NoFailure)
    /\ WF_vars(SmbStartAgain(1) /\ NoFailure)
    /\ WF_vars(SmbStep(1) /\ NoFailure)

\* sync_markets_to_blockchain passes of one process, one after the other,
\* and a pass of a second process at the same time, with every failure the
\* passes can meet
NextCreate ==
    \/ SmbStart(1)
    \/ Fresh(2) /\ SmbStart(2)
    \/ \E p \in Syncers : SmbStep(p)

SpecCreate == InitConverge /\ [][NextCreate]_vars

(***************************************************************************)
(* Properties of the reconciliation passes.                                *)
(***************************************************************************)

C2_ChainIdImmutable ==
    [][\A r \in Rows :
          (markets[r].present /\ markets[r].chainId # NULL)
          => markets'[r].chainId = markets[r].chainId]_vars

\* the conditional updates that two sync_from_blockchain passes ran for the
\* same chain id and the same row, without a database error
Contended(l1, l2) ==
    /\ l1.p # l2.p
    /\ l1.k = l2.k
    /\ l1.row = l2.row
    /\ l1.res # "err"
    /\ l2.res # "err"

Hits(p) == {l \in sfbLog : l.p = p /\ l.res = "hit"}

\* C3: when two concurrent sync_from_blockchain passes both ran the
\* conditional update for the same chain id and the same row, exactly one of
\* the two updates affected a row and the other affected none; a pass counts
\* as synced, and writes, exactly the updates of it that affected a row, and
\* a pass without a failed call returns Ok.
C3_OneConditionalUpdateWins ==
    /\ \A l1 \in sfbLog, l2 \in sfbLog :
          Contended(l1, l2) =>
             /\ {l1.res, l2.res} = {"hit", "miss"}
             /\ markets[l1.row].chainId = l1.k
    /\ \A p \in {1, 2} :
          /\ syncer[p].synced = Cardinality(Hits(p))
          /\ syncer[p].writes = Cardinality(Hits(p))
          /\ (syncer[p].pc = "returned" /\ ~syncer[p].failed) => syncer[p].result = "Ok"

\* both passes have returned; the first won row A for chain id 0, the second
\* saw no row affected, counted nothing and returned Ok
C3_Witness ==
    /\ [p |-> 1, k |-> 0, row |-> "A", res |-> "hit"] \in sfbLog
    /\ [p |-> 2, k |-> 0, row |-> "A", res |-> "miss"] \in sfbLog
    /\ syncer[1].pc = "returned"
    /\ syncer[2].pc = "returned"
    /\ syncer[2].result = "Ok"
    /\ ~syncer[2].failed
    /\ syncer[2].synced = 0
    /\ syncer[2].writes = 0

\* the process has run the same pass at least twice and the last run has
\* returned
RanAgain ==
    /\ syncer[1].pc = "returned"
    /\ syncer[1].runs >= 2
    /\ syncer[1].prev.op = syncer[1].op

C5_TotalIsYesPlusNo ==
    \A r \in Rows : pool[r].total = pool[r].yes + pool[r].no

C5_Witness ==
    /\ recalc.updates > 0
    /\ pool["A"].yes > 0
    /\ pool["A"].no > 0
    /\ \E p \in Bettors : bettor[p].result = "Ok"

Quiescent ==
    /\ \A p \in Bettors : bettor[p].pc \in {"idle", "returned"}
    /\ \A p \in Bettors : bettor[p].pc = "returned" => bettor[p].result = "Ok"
    /\ recalc.pc = "idle"

\* C6: once the place_bet calls on a market have all completed successfully,
\* the pools and counts of the market are the initial ones (zero) plus the
\* amounts and numbers of the bets placed: no update is lost or doubled.
C6_NoLostUpdate ==
    Quiescent => \A r \in Rows : /\ pool[r].yes = placed[r].yes
                                 /\ pool[r].no = placed[r].no
                                 /\ pool[r].countYes = placed[r].countYes
                                 /\ pool[r].countNo = placed[r].countNo

\* C7: whenever a place_bet call has returned, its Bet row exists if and
\* only if the pools of the market were incremented for it.
C7_BetAtomicWithPool ==
    \A p \in Bettors :
        bettor[p].pc = "returned" => (bettor[p].betId # 0 <=> bettor[p].poolInc)

NoWrite(b) == b.chainCalls = 0 /\ b.betId = 0 /\ ~b.poolInc /\ bets = <<>>

\* C9: a returned place_bet call whose reference matches no market row has
\* NotFound; one whose matched row has no chain id or is not active has
\* BadRequest; these results, and every rejected amount, come before any
\* chain call and without a Bet row or a pool update.
C9_ValidationBeforeChain ==
    LET b == bettor[1]
    IN  (b.pc = "returned" /\ ~b.dbFail) =>
          /\ (b.result = "NotFound") <=>
                (\A r \in Rows : ~MatchesIdentifier(markets, r, b.ref))
          /\ (b.market # NoRow
                /\ (markets[b.market].chainId = NULL \/ markets[b.market].status # "active"))
                => b.result = "BadRequest"
          /\ b.result \in {"NotFound", "BadRequest"} => NoWrite(b)
          /\ ~CheckAmount(b.amount).ok => (b.result \in {"NotFound", "BadRequest"} /\ NoWrite(b))
          /\ b.result \in {"Ok", "Internal"} =>
                /\ markets[b.market].chainId # NULL
                /\ markets[b.market].status = "active"
                /\ CheckAmount(b.amount).ok

C9_Witness ==
    /\ bettor[1].pc = "returned"
    /\ bettor[1].ref = "C"
    /\ bettor[1].amount = OneUsdc
    /\ bettor[1].result = "BadRequest"

\* the amount string as an exact count of base units, when it has one
InRange(a) ==
    /\ a.kind = "num"
    /\ ~a.neg
    /\ LET v == <<a.whole[1], a.whole[2], a.frac7 \div 10>>
       IN  /\ v[1] = 0
           /\ \/ v[2] >= 1 /\ v[2] <= 9999
              \/ v[2] = 10000 /\ v[3] = 0

\* C10: parse_usdc_amount followed by validate_bet_amount succeeds exactly for
\* the amounts whose base-unit value is in [1_000_000, 10_000_000_000], both
\* bounds included, and fails with BadRequest for every other amount string
\* (negative, unparsable, zero after truncation such as "0.0000001", below the
\* minimum, above the maximum).
C10_AmountBounds ==
    conv.pc = "done" =>
        /\ conv.result.ok <=> InRange(conv.input)
        /\ ~conv.result.ok => conv.result.err = "BadRequest"
        /\ conv.result.ok => conv.result.val = <<0, conv.input.whole[2], conv.input.frac7 \div 10>>
        /\ conv.input = Num(FALSE, <<0, 0>>, 1) => ~conv.result.ok
        /\ conv.input \in {Num(FALSE, <<0, 1>>, 0), Num(FALSE, <<0, 10000>>, 0)} => conv.result.ok

C10_Witness ==
    /\ conv.pc = "done"
    /\ conv.input = Num(FALSE, <<0, 10000>>, 0)
    /\ conv.result.ok

(***************************************************************************)
(* Odds of place_bet.                                                      *)
(***************************************************************************)
\* whole USDC of a pool that holds whole USDC only, as all pools of SpecOdds do
WholeUsdc(x) == x \div USDC_UNIT

\* the place_bet calls that inserted their row and have not updated the pools:
\* under SpecOdds the pools are still those that calculate_bet_odds read
Inserted == {p \in Bettors : bettor[p].pc = "update_pools"}

\* the pool of the position of p's row with the wager added, and both pools
\* with the wager added
PositionPool(p) ==
    LET row == bets[bettor[p].betId]
        pl == pool[row.market]
    IN  WholeUsdc((IF row.position THEN pl.yes ELSE pl.no) + row.amount)

BothPools(p) ==
    LET row == bets[bettor[p].betId]
        pl == pool[row.market]
    IN  WholeUsdc(pl.yes + pl.no + row.amount)

Max(a, b) == IF a >= b THEN a ELSE b

Abs(x) == IF x >= 0 THEN x ELSE 0 - x

\* C11 as stated: the odds stored by place_bet are max(1.0, (yes_pool +
\* no_pool + a) / (pool_p + a)) on the pools read at insertion
C11_OddsAreTheQuotient ==
    \A p \in Inserted :
        bets[bettor[p].betId].odds * PositionPool(p)
            = OddsOne * Max(BothPools(p), PositionPool(p))

\* C11 amended: the odds stored by place_bet are max(1.0, (yes_pool + no_pool
\* + a) / (pool_p + a)) on the pools read at insertion, rounded to the nearest
\* ten-thousandth
C11_OddsAreTheRoundedQuotient ==
    \A p \in Inserted :
        2 * Abs(bets[bettor[p].betId].odds * PositionPool(p)
                - OddsOne * Max(BothPools(p), PositionPool(p))) <= PositionPool(p)

\* a 50-unit yes bet on pools of 100 and 300 is stored with odds 3.0
C11_Witness ==
    \E p \in Inserted :
        LET row == bets[bettor[p].betId]
        IN  /\ pool[row.market].yes = 100 * USDC_UNIT
            /\ pool[row.market].no = 300 * USDC_UNIT
            /\ row.position
            /\ row.amount = 50 * USDC_UNIT
            /\ row.odds = 3 * OddsOne

(***************************************************************************)
(* Odds on all three paths that write them.                                *)
(***************************************************************************)
\* C12: every odds value written to a Bet row is at least 1.0, whether
\* place_bet, sync_bets_from_indexer or recalculate_odds_for_existing_bets
\* wrote it, and so is every value about to be written
C12_OddsAtLeastOne ==
    /\ \A i \in 1..Len(bets) : bets[i].odds >= OddsOne
    /\ \A p \in Bettors : bettor[p].pc = "insert" => bettor[p].odds >= OddsOne
    /\ jobs.ingest.pc = "ing_insert" => jobs.ingest.odds >= OddsOne

\* a row of place_bet, a row of the ingestion and a row that the backfill
\* rewrote are in the table
C12_Witness ==
    /\ \E i \in 1..Len(bets) : bets[i].id < 100
    /\ \E i \in 1..Len(bets) : bets[i].id = 101 /\ bets[i].odds > OddsOne
    /\ \E i \in 1..Len(bets) : bets[i].id \in LegacyIds /\ bets[i].odds > OddsOne

\* C13: the odds of a Bet row change after its insertion only by the backfill,
\* only if the row is a legacy row whose odds were never computed, and only
\* while its odds are still those it was inserted with
C13_OddsAreASnapshot ==
    [][\A i \in 1..Len(bets) :
          bets'[i].odds # bets[i].odds =>
             /\ jobs.backfill.pc = "bf_update"
             /\ bets[i].id \in LegacyIds
             /\ bets[i].odds = OddsOne]_vars

(***************************************************************************)
(* Approve-then-bet.                                                       *)
(***************************************************************************)
\* the calls whose wager transaction was submitted
WagerSubmitted == {p \in Bettors : bettor[p].pc = "wager_wait"}

\* C14: a wager transaction is submitted only after the
\* allowance that the call read was at least the amount, or after the call
\* submitted an approval and obtained its receipt
C14_WagerOnlyAfterAllowanceOrReceipt ==
    \A p \in WagerSubmitted :
        \/ bettor[p].approvals = 0 /\ ~LimbLess(bettor[p].allowanceRead, bettor[p].raw)
        \/ bettor[p].approvals = 1 /\ bettor[p].approval = "receipt"

\* an attempt holds the receipt of its approval
Confirmed == \E p \in Bettors : bettor[p].approval = "receipt"

\* C15: an approval is submitted only when the allowance read in the same
\* attempt is below the wager amount, and once only; after a confirmed
\* approval the allowance suffices, and an attempt that reads it then
\* submits no approval
C15_ApproveIsCheckThenAct ==
    /\ [](\A q \in Bettors :
            /\ bettor[q].approvals <= 1
            /\ bettor[q].approvals = 1 =>
                  LimbLess(bettor[q].allowanceRead, bettor[q].raw))
    /\ [](Confirmed => allowance = U64_MAX)
    /\ [][\A q \in Bettors :
            Confirmed /\ bettor[q].pc = "allowance" /\ bettor'[q].pc # "allowance" =>
               /\ bettor'[q].pc \in {"wager_send", "returned"}
               /\ bettor'[q].approvals = 0]_vars

\* after an attempt whose approval was confirmed, another attempt read the
\* allowance, found it sufficient and submitted its wager without an approval
C15_Witness ==
    \E p, q \in Bettors :
        /\ bettor[p].approval = "receipt"
        /\ LimbLess(bettor[p].allowanceRead, bettor[p].raw)
        /\ bettor[q].pc = "wager_wait"
        /\ bettor[q].allowanceRead = U64_MAX
        /\ bettor[q].approvals = 0

(***************************************************************************)
(* The matching rule of the reconciliation passes.                         *)
(***************************************************************************)
\* exact equality of the trimmed texts
SameText(bq, dbq) == Trim(bq) = Trim(dbq)

\* a prefix in either direction, on the trimmed texts
EitherPrefix(bq, dbq) ==
    \/ StartsWith(Trim(dbq), Trim(bq))
    \/ StartsWith(Trim(bq), Trim(dbq))

UnlinkedRows(m) == {r \in Rows : m[r].present /\ m[r].chainId = NULL}

\* the rows that the rule gives to an on-chain text: the exact matches, and
\* only if there is none the prefix matches
RuleRows(m, bq) ==
    LET exact == {r \in UnlinkedRows(m) : SameText(bq, m[r].question)}
    IN  IF exact # {} THEN exact
        ELSE {r \in UnlinkedRows(m) : EitherPrefix(bq, m[r].question)}

\* the chain ids that the rule gives to the text of a row
RuleIds(ch, total, dbq) ==
    LET exact == {id \in 0..(total - 1) : SameText(ch[id + 1], dbq)}
    IN  IF exact # {} THEN exact
        ELSE {id \in 0..(total - 1) : EitherPrefix(ch[id + 1], dbq)}

\* C16: both passes match by trimmed text, exact equality first and a prefix
\* in either direction otherwise: sync_from_blockchain goes on with a row for
\* an on-chain market exactly if the rule gives it one, and with one that the
\* rule gives; sync_markets_to_blockchain, its chain reads successful, links
\* a row to an id that the rule gives and creates a market only if the rule
\* gives none
C16_SameMatchRule ==
    [][\A p \in Syncers :
          LET sy == syncer[p]
              after == syncer'[p]
          IN  /\ sy.pc \in {"sfb_read", "sfb_prefix"} /\ after.pc = "sfb_recheck" =>
                    after.mid \in RuleRows(markets, chain[sy.k + 1])
              /\ sy.pc = "sfb_prefix" /\ after = SfbNext(sy) =>
                    RuleRows(markets, chain[sy.k + 1]) = {}
              /\ sy.pc = "smb_scan" /\ ~after.failed /\ after.pc = "smb_check_id" =>
                    RuleIds(chain, sy.total, Head(sy.todo).question) = {}
              /\ (sy.pc = "smb_scan" /\ ~after.failed
                    /\ markets'[Head(sy.todo).id].chainId
                          # markets[Head(sy.todo).id].chainId) =>
                    markets'[Head(sy.todo).id].chainId
                       \in RuleIds(chain, sy.total, Head(sy.todo).question)]_vars

\* C17: a pass that has a text match and finds the chain id held by a
\* different row sends no UPDATE for the match: sync_from_blockchain does not
\* go on from its re-check to the UPDATE, and sync_markets_to_blockchain
\* sends no UPDATE that gives a row a chain id held by a different row
C17_RecheckBeforeWrite ==
    [][\A p \in Syncers :
          LET sy == syncer[p]
              after == syncer'[p]
          IN  /\ (sy.pc = "sfb_recheck" /\ SkipsClaimed(markets, sy.k, sy.mid)) =>
                    after.pc # "sfb_update"
              /\ sy.pc = "smb_scan" =>
                    \A u \in after.issued \ sy.issued :
                        ~SkipsClaimed(markets, u.k, u.row)]_vars

(***************************************************************************)
(* Failures inside a pass.                                                 *)
(***************************************************************************)
\* the pass is inside its loop over the on-chain markets or over the rows
InLoop(sy) ==
    sy.pc \in {"sfb_read", "sfb_prefix", "sfb_recheck", "sfb_update",
               "smb_scan", "smb_check_id", "smb_send", "smb_wait",
               "smb_fix_question", "smb_link"}

\* the market that the pass is at is the last of its loop
AtLastMarket(sy) ==
    IF sy.op = "sfb" THEN sy.k + 1 >= sy.total ELSE Len(sy.todo) <= 1

\* C18: whatever fails while a pass reconciles one market, the pass goes on
\* with the next market: it returns from inside its loop only at the last
\* market, and a pass that returned takes no step until it is started again
C18_FailureSkipsOneMarket ==
    [][\A p \in Syncers :
          /\ (InLoop(syncer[p]) /\ syncer'[p].pc = "returned") => AtLastMarket(syncer[p])
          /\ syncer[p].pc = "returned" =>
                syncer'[p] = syncer[p] \/ syncer'[p].pc \in {"sfb_read", "smb_total",
                   "vbs_read", "ups_update", "ups_insert", "returned"}]_vars

(***************************************************************************)
(* The creation path of sync_markets_to_blockchain.                        *)
(***************************************************************************)
\* the row for which the pass created a market, and the question that the
\* contract holds for the created market
CreatedRow(sy) == Head(sy.todo).id

CreatedQuestion(sy) == chain[sy.newId + 1]

Linkable(m, ch) ==
    {r \in UnlinkedRows(m) : \E id \in 0..(Len(ch) - 1) : SameText(ch[id + 1], m[r].question)}

\* C20: the jobs of a tick run one after the other, the reconciliation before
\* the ingestion, so that when the ingestion of a tick looks a market up by
\* chain id the reconciliation of that tick has assigned the ids: no row is
\* left unlinked whose question a market of the contract holds
C20_ChainIdsAssignedBeforeIngestion ==
    (jobs.tick.pc = "ingest" /\ jobs.ingest.pc = "ing_market") =>
        Linkable(markets, chain) = {}

\* the jobs of a tick do run one after the other: the ingestion takes its
\* steps only in the last part of a tick
C20_IngestionRunsLast ==
    [][jobs'.ingest # jobs.ingest => jobs.tick.pc = "ingest" /\ jobs'.tick = jobs.tick]_vars

\* a job of tick n ended with Err
ApysFailedIn(n) ==
    jobs.tick.sync_count = n /\ jobs.tick.pc = "full_sync" /\ jobs.tick.apys = "Err"

IngestFailedIn(n) ==
    /\ jobs.tick.sync_count = n
    /\ jobs.tick.pc = "ingest"
    /\ jobs.ingest.runs = n
    /\ jobs.ingest.pc = "returned"
    /\ jobs.ingest.result = "Err"

\* tick n is over, its ingestion having run
TickDone(n) ==
    \/ jobs.tick.sync_count > n
    \/ jobs.tick.sync_count = n /\ jobs.tick.pc = "waiting" /\ jobs.ingest.runs = n

\* C21: a job of a tick that returns an error keeps neither the later jobs of
\* the tick from running nor the loop from going on: after a failed APY
\* refresh the ingestion of the same tick runs and the tick is completed,
\* after a failed ingestion the tick is completed, and a completed tick is
\* followed by the next one; the task never leaves its loop
C21_JobFailuresAreIsolated ==
    /\ \A n \in 1..MaxTicks : ApysFailedIn(n) ~> TickDone(n)
    /\ \A n \in 1..MaxTicks : IngestFailedIn(n) ~> TickDone(n)
    /\ \A n \in 1..(MaxTicks - 1) : TickDone(n) ~> (jobs.tick.sync_count > n)
    /\ [](jobs.tick.pc \in {"waiting", "apys", "full_sync", "ingest"})

\* the ingestion of the first tick returned Err, the second tick began and
\* its APY refresh returned Err
C21_Witness ==
    /\ jobs.tick.sync_count = 2
    /\ jobs.tick.pc = "full_sync"
    /\ jobs.tick.apys = "Err"
    /\ jobs.ingest.runs = 1
    /\ jobs.ingest.result = "Err"

(***************************************************************************)
(* The indexer-bet ingestion.                                              *)
(***************************************************************************)
Events == {jobs.events[i] : i \in 1..Len(jobs.events)}

\* the rows of bets_extended under an id
BetRows(id) == {i \in 1..Len(bets) : bets[i].id = id}

\* the market of the event is a row of the database
MarketLinked(e) == \E r \in Rows : markets[r].present /\ markets[r].chainId = e.market_id

IngestReturnedOk == jobs.ingest.pc = "returned" /\ jobs.ingest.result = "Ok"

C23_ResolvedOnce ==
    [][\A r \in Rows :
          (markets[r].present /\ markets[r].status = "resolved") =>
             /\ markets'[r].status = "resolved"
             /\ markets'[r].result = markets[r].result]_vars

(***************************************************************************)
(* The chart series.                                                       *)
(***************************************************************************)
ChartReturnedOk == reads.chart.pc = "returned" /\ reads.chart.result = "Ok"

\* floor(t / interval) * interval
FloorBucket(t, interval_seconds) == (t \div interval_seconds) * interval_seconds

\* the start of the series of a call that has fetched its bets
ChartStart ==
    LET c == reads.chart
    IN  IF c.from # None THEN Unwrap(c.from)
        ELSE IF c.fetched # <<>> THEN c.fetched[1].timestamp
        ELSE c.market_created_at

\* the times of the points are the boundaries from lo to hi, one interval
\* apart
Covers(points, lo, hi, interval_seconds) ==
    /\ Len(points) = IF lo > hi THEN 0 ELSE (hi - lo) \div interval_seconds + 1
    /\ \A i \in 1..Len(points) : points[i].time = lo + (i - 1) * interval_seconds

\* C24: a call that has fetched its bets has returned the series of the
\* boundaries from floor(start / interval) * interval to floor(to / interval)
\* * interval, one interval apart
C24_SeriesCoversEveryBoundary ==
    reads.chart.queries = 2 /\ reads.chart.result # "Internal" =>
        /\ ChartReturnedOk
        /\ Covers(reads.chart.points,
                  FloorBucket(ChartStart, reads.chart.interval_seconds),
                  FloorBucket(reads.chart.to_timestamp, reads.chart.interval_seconds),
                  reads.chart.interval_seconds)

\* a returned series covers the boundaries when its start is not before the
\* epoch
SeriesCoversBoundariesFromEpoch ==
    ChartReturnedOk /\ ChartStart >= 0 =>
        Covers(reads.chart.points,
               FloorBucket(ChartStart, reads.chart.interval_seconds),
               FloorBucket(reads.chart.to_timestamp, reads.chart.interval_seconds),
               reads.chart.interval_seconds)

\* a call whose to is within an interval of i64::MAX has not returned
ChartOverflowed == reads.chart.pc \in {"panicked", "unending"}

RECURSIVE SumUpTo(_, _, _, _)
\* the sum of the amounts of the bets of a side whose bucket key is at or
\* before a time
SumUpTo(fetched, position, time, interval_seconds) ==
    IF fetched = <<>> THEN 0
    ELSE (IF /\ Head(fetched).position = position
             /\ FloorBucket(Head(fetched).timestamp, interval_seconds) <= time
          THEN Head(fetched).amount ELSE 0)
         + SumUpTo(Tail(fetched), position, time, interval_seconds)

\* no fetched bet has its bucket key at a time
EmptyBucket(time) ==
    \A j \in 1..Len(reads.chart.fetched) :
        FloorBucket(reads.chart.fetched[j].timestamp, reads.chart.interval_seconds) # time

\* C25: in a returned series the volumes of a point are the sums of the
\* amounts of the fetched bets whose bucket key is at or before the point, a
\* point whose bucket holds no bet repeats the volumes of the point before it
\* with bet count 0, and the yes probability is running_yes / running_total
C25_SeriesIsRunningCumulative ==
    ChartReturnedOk =>
        \A i \in 1..Len(reads.chart.points) :
            LET c == reads.chart
                p == c.points[i]
                yes == SumUpTo(c.fetched, TRUE, p.time, c.interval_seconds)
                no == SumUpTo(c.fetched, FALSE, p.time, c.interval_seconds)
            IN  /\ p.yes_volume = yes
                /\ p.no_volume = no
                /\ p.total_volume = yes + no
                /\ (yes + no > 0 => /\ p.yes_probability = <<yes, yes + no>>
                                    /\ p.no_probability = <<no, yes + no>>)
                /\ (EmptyBucket(p.time) =>
                        /\ p.bet_count = 0
                        /\ (i > 1 => /\ p.yes_volume = c.points[i - 1].yes_volume
                                     /\ p.no_volume = c.points[i - 1].no_volume
                                     /\ p.total_volume = c.points[i - 1].total_volume))

\* a returned series whose last point holds no bet and repeats a pool that
\* both sides have paid into
C25_Witness ==
    /\ ChartReturnedOk
    /\ Len(reads.chart.points) >= 3
    /\ LET p == reads.chart.points[Len(reads.chart.points)]
       IN  /\ EmptyBucket(p.time)
           /\ p.bet_count = 0
           /\ p.yes_volume > 0
           /\ p.no_volume > 0

\* a point of an empty pool
EvenPoint(p) ==
    /\ p.yes_probability = <<1, 2>>
    /\ p.no_probability = <<1, 2>>
    /\ p.yes_odds = <<2, 1>>
    /\ p.no_odds = <<2, 1>>
    /\ p.yes_volume = 0
    /\ p.no_volume = 0
    /\ p.total_volume = 0
    /\ p.bet_count = 0

\* the rows that a call names: by id or by ticker
ChartRows ==
    {r \in Rows : /\ markets[r].present
                  /\ r = reads.chart.market_id \/ markets[r].ticker = reads.chart.market_id}

\* the bets of the named market in the range of the call
ChartOwnBets ==
    LET c == reads.chart
        from_timestamp == IF c.from = None THEN c.market_created_at ELSE Unwrap(c.from)
    IN  {i \in 1..Len(bets) : /\ bets[i].market \in ChartRows
                              /\ from_timestamp <= bets[i].createdAt
                              /\ bets[i].createdAt <= c.to_timestamp}

\* C26: the series returned for a market with no bet in the range has
\* probability 1/2, odds 2, volume 0 and bet count 0 at every point
C26_NoBetGivesEvenSeries ==
    ChartReturnedOk /\ ChartOwnBets = {} =>
        \A i \in 1..Len(reads.chart.points) : EvenPoint(reads.chart.points[i])

\* the series built from no fetched bet is even at every point
SeriesOfNoFetchedBetIsEven ==
    ChartReturnedOk /\ reads.chart.fetched = <<>> =>
        \A i \in 1..Len(reads.chart.points) : EvenPoint(reads.chart.points[i])

\* a series of several even points, returned while the table holds bets
EvenSeriesReturned ==
    /\ ChartReturnedOk
    /\ reads.chart.fetched = <<>>
    /\ bets # <<>>
    /\ Len(reads.chart.points) >= 2

\* the six intervals and their seconds
IntervalSeconds ==
    [i \in {"1m", "5m", "15m", "1h", "4h", "1d"} |->
        CASE i = "1m" -> 60 [] i = "5m" -> 300 [] i = "15m" -> 900
          [] i = "1h" -> 3600 [] i = "4h" -> 14400 [] i = "1d" -> 86400]

\* C27: a call goes past the validation only with one of the six intervals
\* and with its seconds, and a call with any other interval has returned
\* BadRequest with no query issued
C27_IntervalValidatedBeforeAnyQuery ==
    reads.chart.pc # "idle" =>
        IF reads.chart.interval \in DOMAIN IntervalSeconds
        THEN /\ reads.chart.result # "BadRequest"
             /\ reads.chart.interval_seconds = IntervalSeconds[reads.chart.interval]
        ELSE /\ reads.chart.pc = "returned"
             /\ reads.chart.result = "BadRequest"
             /\ reads.chart.queries = 0

\* a call with the interval 2h has returned BadRequest
C27_Witness ==
    /\ reads.chart.pc = "returned"
    /\ reads.chart.interval = "2h"
    /\ reads.chart.result = "BadRequest"
    /\ reads.chart.queries = 0

\* a call with the interval 1h has returned its series
HourlySeriesReturned ==
    /\ ChartReturnedOk
    /\ reads.chart.interval = "1h"
    /\ reads.chart.queries = 2

(***************************************************************************)
(* The status of the syncs.                                                *)
(***************************************************************************)
\* C28: two reads of the status between which the scheduler has not moved
\* return the same last_sync_time
C28_LastSyncTimeIsOfLastSync ==
    \A i, j \in 1..Len(reads.status) :
        /\ reads.status[i].result = "Ok"
        /\ reads.status[j].result = "Ok"
        /\ reads.status[i].sched = reads.status[j].sched
        => reads.status[i].last_sync_time = reads.status[j].last_sync_time

\* the last_sync_time of a read is the time of the read
LastSyncTimeIsNow ==
    [][\A i \in 1..Len(reads'.status) :
          i > Len(reads.status) /\ reads'.status[i].result = "Ok" =>
              reads'.status[i].last_sync_time = Some(to_rfc3339(now))]_vars

(***************************************************************************)
(* The progress of the ingestion.                                          *)
(***************************************************************************)
\* the event at a place of bet_placeds is of a market that the database holds
LinkedEventAt(i) == i <= Len(jobs.events) /\ MarketLinked(jobs.events[i])

\* the event at a place of bet_placeds has its row
InsertedEventAt(i) == i <= Len(jobs.events) /\ BetRows(jobs.events[i].id) # {}

\* C29: while the scheduler ticks and no statement fails, every event of a
\* market that the database holds is eventually inserted
C29_LinkedEventsEventuallyInserted ==
    \A i \in 1..(BatchLimit + 1) : LinkedEventAt(i) ~> InsertedEventAt(i)

\* the events of a table of no more than BatchLimit events are inserted
SmallTableIngested ==
    \A i \in 1..BatchLimit :
        (jobs.events = bet_placeds /\ LinkedEventAt(i)) ~> InsertedEventAt(i)

\* behind BatchLimit events of a market that the database does not hold no
\* event is ever inserted, and every run selects the same events
StarvedForEver ==
    jobs.events = StarvingEvents =>
        /\ bets = <<>>
        /\ \A i \in 1..Len(jobs.ingest.todo) : jobs.ingest.todo[i].market_id = 7

\* a run over the starving table has returned Ok, and the next has started
StarvedRunsReturnOk ==
    /\ jobs.events = StarvingEvents
    /\ jobs.tick.sync_count = 2
    /\ jobs.ingest.runs = 2
    /\ jobs.ingest.pc = "ing_market"

(***************************************************************************)
(* One row for a wager.                                                    *)
(***************************************************************************)
\* C30: a wager that place_bet recorded has no second row under the id of
\* its event
C30_WagerRecordedOnce ==
    \A e \in Events : e.wager \in PlacedRows => BetRows(e.id) = {}

\* the ingestion inserts the event of a wager where place_bet wrote no row
\* for it
IngestionInsertsOnce == \A e \in Events : Cardinality(BetRows(e.id)) <= 1

(***************************************************************************)
(* Bets and the resolution of their market.                                *)
(***************************************************************************)
\* C31: no step inserts a Bet row for a market that is resolved when the row
\* is written, and none increments a pool counter of such a market
C31_NoBetOnResolvedMarket ==
    [][/\ \A i \in 1..Len(bets') :
            i > Len(bets) => markets[bets'[i].market].status # "resolved"
       /\ \A r \in Rows :
            pool'[r] # pool[r] => markets[r].status # "resolved"]_vars

\* a call goes past the check of the status only for a market that is active
\* at the call
ResolvedAtCallIsRefused ==
    [][\A p \in Bettors :
          /\ bettor[p].pc = "idle"
          /\ bettor'[p].pc = "market_read"
          => markets[bettor'[p].market].status = "active"]_vars

(***************************************************************************)
(* The bets of a chart.                                                    *)
(***************************************************************************)
\* the bets of the named market in the range of the call, as the query
\* returns rows
ChartOwnFetch ==
    LET c == reads.chart
    IN  Where(OrderByCreatedAt(bets), ChartRows,
              IF c.from = None THEN c.market_created_at ELSE Unwrap(c.from),
              c.to_timestamp)

\* the call has run its query of the bets
ChartFetched == reads.chart.queries = 2 /\ reads.chart.result # "Internal"

\* C32: the bets that a call fetches are those of the market that its
\* reference names, and none where the reference names no market
C32_ChartOfOwnBetsOnly == ChartFetched => reads.chart.fetched = ChartOwnFetch

\* the call for a market that holds a chain id fetches the bets of that market
\* alone
LinkedChartOfOwnBetsOnly ==
    /\ ChartFetched
    /\ \E r \in ChartRows : markets[r].chainId # NULL
    => reads.chart.fetched = ChartOwnFetch

\* the call for market A has fetched its two bets
LinkedChartFetched ==
    /\ ChartFetched
    /\ reads.chart.market_id \in {"A", "T1"}
    /\ Len(reads.chart.fetched) = 2

(***************************************************************************)
(* The convergence of the reconciliation.                                  *)
(***************************************************************************)
\* an active market without a chain id
AwaitsChainId(r) ==
    markets[r].present /\ markets[r].status = "active" /\ markets[r].chainId = NULL

\* C33: while sync_markets_to_blockchain is run again and again and nothing
\* fails, every active market without a chain id eventually holds one
C33_EveryActiveMarketEventuallyLinked ==
    \A r \in Rows : AwaitsChainId(r) ~> (markets[r].chainId # NULL)

\* on a chain that holds no market yet both markets come to hold a chain id
EmptyChainConverges ==
    \A r \in Rows : (chain = <<>> /\ AwaitsChainId(r)) ~> (markets[r].chainId # NULL)

\* row B, whose question equals or extends the question of the chain market
\* that row A holds, is given a chain id only after the creation of a market
\* of its own, never by the match
ShadowedRowNeverLinked ==
    [][markets["B"].chainId = NULL /\ markets'["B"].chainId # NULL
       => syncer[1].pc = "smb_link"]_vars

\* a later pass has reached the scan for row B while row A holds chain id 0
ShadowedRowScannedAgain ==
    /\ syncer[1].pc = "smb_scan"
    /\ syncer[1].runs = 2
    /\ Head(syncer[1].todo).id = "B"
    /\ markets["A"].chainId = 0


\* the rows for which a createMarket transaction of some pass was confirmed
ConfirmedRows == UNION {syncer[p].confirmed : p \in Syncers}

\* the pass of process p sends createMarket for the market it is at
SendsCreateMarket(p) ==
    /\ syncer[p].pc = "smb_send"
    /\ syncer'[p].pc = "smb_wait"

\* C34: across any number of sync_markets_to_blockchain passes, two at the
\* same time and passes repeated after a creation whose database update
\* failed included, no pass sends a createMarket transaction for a database
\* market for which a createMarket transaction was already confirmed.
C34_OneCreationPerMarket ==
    [][\A p \in Syncers :
          SendsCreateMarket(p) => Head(syncer[p].todo).id \notin ConfirmedRows]_vars

\* a pass that begins after the confirmation, and reads every market of the
\* chain, finds the created market and sends nothing for the row
BegunAfterConfirmation(p) ==
    /\ syncer[p].pc = "smb_scan"
    /\ syncer[p].total = Len(chain)
    /\ Head(syncer[p].todo).id \in ConfirmedRows

LaterPassFindsCreatedMarket ==
    [][\A p \in Syncers :
          BegunAfterConfirmation(p) /\ ~syncer'[p].failed
             => syncer'[p].pc # "smb_check_id"]_vars

\* a pass is at a row whose creation was confirmed and whose link failed
RepeatedAfterFailedLink ==
    \E p \in Syncers :
       /\ BegunAfterConfirmation(p)
       /\ syncer[p].prev.failed
       /\ markets[Head(syncer[p].todo).id].chainId = NULL

\* the question of chain market k is empty once trimmed
BlankOnChain(k) == Trim(chain[k + 1]) = <<>>

\* the pass matches row r to a chain market and the UPDATE that follows the
\* match gives the row the id of that market
LinkedByMatch(r) ==
    /\ syncer[1].pc \in {"sfb_update", "smb_scan"}
    /\ markets[r].chainId = NULL
    /\ markets'[r].chainId # NULL

\* C35: in sync_from_blockchain and in sync_markets_to_blockchain alike, a
\* chain market whose question is empty once trimmed is never matched to a
\* database market with a non-empty question, nor its id given to it.
C35_BlankChainQuestionNeverMatched ==
    [][\A r \in Rows :
          LinkedByMatch(r) /\ Trim(markets[r].question) # <<>>
             => ~BlankOnChain(markets'[r].chainId)]_vars

\* the same of each pass alone
SfbNeverMatchesBlank ==
    [][\A r \in Rows :
          LinkedByMatch(r) /\ syncer[1].op = "sfb" /\ Trim(markets[r].question) # <<>>
             => ~BlankOnChain(markets'[r].chainId)]_vars

SmbNeverMatchesBlank ==
    [][\A r \in Rows :
          LinkedByMatch(r) /\ syncer[1].op = "smb" /\ Trim(markets[r].question) # <<>>
             => ~BlankOnChain(markets'[r].chainId)]_vars

\* a chain market with a question is matched only to a row whose trimmed
\* question begins with it
NamedChainQuestionMatchedByPrefix ==
    [][\A r \in Rows :
          LinkedByMatch(r) /\ ~BlankOnChain(markets'[r].chainId)
             => StartsWith(Trim(markets[r].question),
                           Trim(chain[markets'[r].chainId + 1]))]_vars
====
